---- MODULE Spec2Model ----
(***************************************************************************)
(* Model of the copy-trading bot's execution core:                         *)
(*   - closePosition          (src/ui/services/positionService.ts)         *)
(*   - WebSocketTradeMonitor  (src/services/wsTradeMonitor.ts)             *)
(*   - redeemAllResolved      (redeemService, unnamed/part_000)            *)
(*   - TradeEventEmitter      (tradeEventEmitter, unnamed/part_000)        *)
(* Every await of the code is a point where another handler may run; an    *)
(* action is the synchronous stretch of code between two awaits.           *)
(*                                                                         *)
(* Token quantities are integers counting units of 0.005 token, so the     *)
(* code's 0.01-token thresholds are 2 units; prices are integers in an     *)
(* arbitrary price unit.  Arithmetic is exact (the code's IEEE doubles     *)
(* are modelled by the numbers they approximate).                          *)
(***************************************************************************)
EXTENDS Integers, Sequences, FiniteSets, TLC

Min(a, b) == IF a < b THEN a ELSE b

Max(a, b) == IF a > b THEN a ELSE b

(***************************************************************************)
(* State                                                                   *)
(***************************************************************************)

\* closePosition
VARIABLES
    job,        \* per request: the locals of its closePosition call
    result,     \* per request: the SellResult returned, or NoResult
    submitted,  \* per request: orders handed to postOrder so far (history)
    fails       \* per request: failed attempts since the last fill (history)

closeVars == <<job, result, submitted, fails>>

\* WebSocketTradeMonitor, connection state
VARIABLES
    client,             \* this.client: "null" or "set"
    isConnected,        \* this.isConnected
    reconnectAttempts,  \* this.reconnectAttempts
    useFallback,        \* this.useFallback
    timers,             \* reconnect timers armed by setTimeout and not yet fired
    liveClients,        \* clients created by connect() and not torn down
    wsOut,              \* what the last handler did: events emitted, timers armed,
                        \* clients created, in order
    lastCall            \* the public method the program called last (history)

monVars == <<client, isConnected, reconnectAttempts, useFallback, timers,
             liveClients, wsOut, lastCall>>

\* WebSocketTradeMonitor, inbound messages and the observation store
VARIABLES
    store,      \* per configured address: the documents of its collection
    handler,    \* per handleMessage invocation in progress: where it awaits
    received,   \* inbound messages delivered so far
    now,        \* Date.now(), in whole hours
    msgOut,     \* the 'trade' events the last handler step emitted, in order
    storeOut,   \* how storeTrade returned in the last handler step, if it did
    inbound     \* the message onMessage is invoked with, where one is singled out

storeVars == <<store, handler, received, now, msgOut, storeOut, inbound>>

\* redeemAllResolved
VARIABLES
    rpc,                  \* where the call is: idle, an await, or returned
    redeemablePositions,  \* the local of that name
    groups,               \* Array.from(positionsByCondition.entries())
    gi,                   \* index of the group the loop is at
    redeemResult,         \* the local `result`, returned at the end
    attempts,             \* the positions redeemPosition was called with (history)
    outcomes              \* how each of those calls ended (history)

redeemVars == <<rpc, redeemablePositions, groups, gi, redeemResult, attempts,
                outcomes>>

\* TradeEventEmitter
VARIABLES
    lastCheckedTimestamp,  \* the watermark
    isRunning,             \* this.isRunning
    pollingInterval,       \* this.pollingInterval: "null" or "set"
    poll,                  \* per checkForNewTrades invocation in progress
    emitCount,             \* per document: 'trade' events emitted for it (history)
    pollOut                \* the events the last step emitted, in order

pollVars == <<lastCheckedTimestamp, isRunning, pollingInterval, poll, emitCount,
              pollOut>>

\* SimpleCache
VARIABLES
    cache,      \* this.cache: per key its entry, or that it has none
    getter,     \* per cache.get call: where it is, and what it returned
    cacheNow    \* Date.now(), in the unit of the ttl

cacheVars == <<cache, getter, cacheNow>>

\* getRedeemablePositions, and one redeemPosition call step by step
VARIABLES
    apiData,    \* the positions the data API answers with, where they are fixed
    summary,    \* the getRedeemablePositions call: where it is, what it returned
    redeemTx    \* the redeemPosition call: where it is, its locals, what it sent

apiVars == <<apiData, summary, redeemTx>>

\* POST /close-all and GET /close-all/stream
VARIABLES
    closeAll    \* the request: where it is, its locals, what it wrote so far

batchVars == <<closeAll>>

\* GET /api/trades/stream and GET /api/trades
VARIABLES
    clients,    \* clients.size: the SSE responses in the set
    intervals,  \* setInterval timers of the emitter armed and not cleared (history)
    recent      \* the GET /api/trades request: where it is, its locals, its answer

streamVars == <<clients, intervals, recent>>

\* no request for GET /api/trades yet
IdleRecent ==
    [pc |-> "idle", query |-> [kind |-> "absent", value |-> 0], limit |-> 0,
     i |-> 0, trades |-> <<>>, failed |-> FALSE, response |-> <<>>]

vars == <<closeVars, monVars, storeVars, redeemVars, pollVars, cacheVars, apiVars,
          batchVars, streamVars>>

\* what the actions of one component leave alone
notClose == <<streamVars, batchVars, apiVars, cacheVars, monVars, storeVars, redeemVars, pollVars>>

notMon == <<streamVars, batchVars, apiVars, cacheVars, closeVars, storeVars, redeemVars, pollVars>>

notStore == <<streamVars, batchVars, apiVars, cacheVars, closeVars, monVars, redeemVars, pollVars>>

notRedeem == <<streamVars, batchVars, apiVars, cacheVars, closeVars, monVars, storeVars, pollVars>>

notCache == <<streamVars, batchVars, apiVars, closeVars, monVars, storeVars, redeemVars, pollVars>>

notApi == <<streamVars, batchVars, cacheVars, closeVars, monVars, storeVars, redeemVars, pollVars>>

\* the emitter reads the store, which the monitor and the trade executor write
notBatch == <<streamVars, apiVars, cacheVars, closeVars, monVars, storeVars, redeemVars, pollVars>>

notPoll == <<clients, recent, batchVars, apiVars, cacheVars, closeVars, monVars, redeemVars, handler,
             received, now, msgOut, storeOut, inbound>>

(***************************************************************************)
(* closePosition                                                           *)
(***************************************************************************)

\* ENV.RETRY_LIMIT, a configured value
RETRY_LIMIT == 2

\* 0.01 token, the minimum sell size
MinSellSize == 2

\* 0.01 token, the loop's dust threshold
DustThreshold == 2

\* longest order book (bid side) the venue returns in the model
MaxBids == 2

\* longest position list the data API returns in the model
MaxPositions == 2

\* requests being served at the same time
Requests == {"r1", "r2"}

Assets == {"a1", "a2"}

Percentages == {-1, 0, 50, 100, 101}

PositionSizes == {2, 4, 6}

BidPrices == {1, 2}

BidSizes == {1, 3, 5}

SeqsUpTo(S, n) == UNION {[1..k -> S] : k \in 0..n}

PositionT == [asset : Assets, size : PositionSizes]

BidT == [price : BidPrices, size : BidSizes]

NoResult == [error |-> "pending"]

NoOrder == [amount |-> 0, price |-> 0]

IdleJob ==
    [pc |-> "idle", asset |-> "a1", percentage |-> 0, position |-> 0,
     sellSize |-> 0, remaining |-> 0, totalSold |-> 0, totalValue |-> 0, retry |-> 0,
     orderArgs |-> NoOrder, bids |-> <<>>]

SellResult(success, sold, rem, value, error) ==
    [success |-> success, tokensSold |-> sold, tokensRemaining |-> rem,
     totalValue |-> value, error |-> error]

\* positions.find((p) => p.asset === asset): index of the first match, 0 if none
RECURSIVE FindPosition(_, _, _)
FindPosition(positions, asset, i) ==
    IF i > Len(positions) THEN 0
    ELSE IF positions[i].asset = asset THEN i
    ELSE FindPosition(positions, asset, i + 1)

\* a faulty reduce that lets a later bid of equal price replace the earlier one
RECURSIVE MaxPriceBidFromLast(_, _, _)
MaxPriceBidFromLast(bids, i, max) ==
    IF i > Len(bids) THEN max
    ELSE MaxPriceBidFromLast(bids, i + 1,
                             IF bids[i].price >= max.price THEN bids[i] ELSE max)

\* orderBook.bids.reduce((max, bid) => bid.price > max.price ? bid : max, bids[0])
RECURSIVE MaxPriceBidFrom(_, _, _)
MaxPriceBidFrom(bids, i, max) ==
    IF i > Len(bids) THEN max
    ELSE MaxPriceBidFrom(bids, i + 1,
                         IF bids[i].price > max.price THEN bids[i] ELSE max)

MaxPriceBid(bids) == MaxPriceBidFrom(bids, 1, bids[1])

\* a faulty loop guard that allows one attempt more: retry <= RETRY_LIMIT
LoopGuardInclusive(j) == j.remaining > DustThreshold /\ j.retry <= RETRY_LIMIT

\* while (remaining > 0.01 && retry < RETRY_LIMIT)
LoopGuard(j) == j.remaining > DustThreshold /\ j.retry < RETRY_LIMIT

\* a faulty final return that reports success only when everything was sold
FinalResultAllOrNothing(j) ==
    SellResult(j.remaining <= DustThreshold, j.totalSold, j.remaining,
               j.totalValue,
               IF j.remaining > DustThreshold THEN "Could not sell all tokens"
               ELSE "none")

\* the return after the loop
FinalResult(j) ==
    SellResult(j.totalSold > 0, j.totalSold, j.remaining, j.totalValue,
               IF j.remaining > DustThreshold THEN "Could not sell all tokens"
               ELSE "none")

\* a faulty empty-book return that always reports failure
NoBidsResultFailing(j) ==
    SellResult(FALSE, j.totalSold, j.remaining, j.totalValue,
               "No bids available in order book")

\* the return inside the loop on an empty bid side
NoBidsResult(j) ==
    SellResult(j.totalSold > 0, j.totalSold, j.remaining, j.totalValue,
               "No bids available in order book")

\* a faulty fill that forgets remaining -= orderArgs.amount
OnFillLeavesRemaining(j) ==
    [j EXCEPT !.retry = 0,
              !.totalSold = @ + j.orderArgs.amount,
              !.totalValue = @ + j.orderArgs.amount * j.orderArgs.price,
              !.bids = <<>>]

\* a faulty fill that books the whole bid, not the amount sold
OnFillBookingBid(j) ==
    [j EXCEPT !.retry = 0,
              !.totalSold = @ + j.orderArgs.amount,
              !.totalValue = @ + MaxPriceBid(j.bids).size * j.orderArgs.price,
              !.remaining = @ - j.orderArgs.amount,
              !.bids = <<>>]

\* resp.success === true; the book of the iteration goes out of scope
OnFill(j) ==
    [j EXCEPT !.retry = 0,
              !.totalSold = @ + j.orderArgs.amount,
              !.totalValue = @ + j.orderArgs.amount * j.orderArgs.price,
              !.remaining = @ - j.orderArgs.amount,
              !.bids = <<>>]

\* a faulty failure branch that forgets retry += 1
OnFailureForgetting(j) == [j EXCEPT !.bids = <<>>]

\* a faulty failure branch that takes the order's amount off what remains
OnFailureConsuming(j) ==
    [j EXCEPT !.retry = @ + 1, !.remaining = @ - j.orderArgs.amount,
              !.bids = <<>>]

\* the else branch and the catch block: retry += 1
OnFailure(j) == [j EXCEPT !.retry = @ + 1, !.bids = <<>>]

\* the loop head, reached from the end of an iteration or from the setup:
\* next iteration (await getOrderBook) or the final return
ToLoopHead(r, j) ==
    IF LoopGuard(j)
    THEN /\ job' = [job EXCEPT ![r] = [j EXCEPT !.pc = "getOrderBook"]]
         /\ UNCHANGED result
    ELSE /\ job' = [job EXCEPT ![r] = [j EXCEPT !.pc = "returned"]]
         /\ result' = [result EXCEPT ![r] = FinalResult(j)]

\* a failed attempt: wait one second if the limit is not reached, then the loop head
AfterFailure(r, j) ==
    IF j.retry < RETRY_LIMIT
    THEN /\ job' = [job EXCEPT ![r] = [j EXCEPT !.pc = "backoff"]]
         /\ UNCHANGED result
    ELSE ToLoopHead(r, j)

Return(r, j, res) ==
    /\ job' = [job EXCEPT ![r] = [j EXCEPT !.pc = "returned"]]
    /\ result' = [result EXCEPT ![r] = res]

\* a faulty minimum check that also rejects a sell size of exactly 0.01
BelowMinimumInclusive(sellSize) == sellSize <= MinSellSize

\* if (sellSize < 0.01)
BelowMinimum(sellSize) == sellSize < MinSellSize

\* closePosition(asset, percentage) up to the await of fetchPositions
CloseCall(r, percentages) ==
    /\ job[r].pc = "idle"
    /\ \E asset \in Assets, percentage \in percentages :
       LET j == [job[r] EXCEPT !.asset = asset, !.percentage = percentage] IN
       IF percentage < 0 \/ percentage > 100
       THEN Return(r, j, SellResult(FALSE, 0, 0, 0,
                                    "Percentage must be between 0 and 100"))
       ELSE /\ job' = [job EXCEPT ![r] = [j EXCEPT !.pc = "fetchPositions"]]
            /\ UNCHANGED result
    /\ UNCHANGED <<submitted, fails, notClose>>

\* fetchPositions resolved with a position list: find, sellSize, minimum check
\* (position is the size of the position found, 0 when there is none)
ClosePositionsFetched(r, positionLists) ==
    /\ job[r].pc = "fetchPositions"
    /\ \E positions \in positionLists :
       LET i == FindPosition(positions, job[r].asset, 1)
           j == [job[r] EXCEPT !.position = IF i = 0 THEN 0 ELSE positions[i].size]
       IN IF i = 0
          THEN Return(r, j, SellResult(FALSE, 0, 0, 0, "Position not found"))
          ELSE LET size == (j.position * j.percentage) \div 100 IN
               IF BelowMinimum(size)
               THEN Return(r, j, SellResult(FALSE, 0, j.position, 0,
                                            "Sell size below minimum (0.01 tokens)"))
               ELSE /\ job' = [job EXCEPT ![r] =
                                 [j EXCEPT !.sellSize = size, !.pc = "updateBalance"]]
                    /\ UNCHANGED result
    /\ UNCHANGED <<submitted, fails, notClose>>

\* fetchPositions or getClobClient rejected: closePosition rejects
CloseSetupThrows(r) ==
    /\ job[r].pc \in {"fetchPositions", "updateBalance"}
    /\ job' = [job EXCEPT ![r].pc = "thrown"]
    /\ UNCHANGED <<result, submitted, fails, notClose>>

\* updateBalanceAllowance settled (a failure is only logged): the locals of the
\* loop are initialised and the loop head is evaluated
CloseBalanceUpdated(r) ==
    /\ job[r].pc = "updateBalance"
    /\ ToLoopHead(r, [job[r] EXCEPT !.remaining = job[r].sellSize,
                                    !.totalSold = 0, !.totalValue = 0, !.retry = 0])
    /\ UNCHANGED <<submitted, fails, notClose>>

\* getOrderBook resolved: no bids returns; otherwise the order is built from the
\* best bid, signed and handed to postOrder
CloseOrderBookFetched(r, books) ==
    /\ job[r].pc = "getOrderBook"
    /\ \E bids \in books :
       IF Len(bids) = 0
       THEN /\ Return(r, job[r], NoBidsResult(job[r]))
            /\ UNCHANGED <<submitted, notClose>>
       ELSE LET best == MaxPriceBid(bids)
                args == [amount |-> Min(job[r].remaining, best.size),
                         price |-> best.price]
            IN /\ job' = [job EXCEPT ![r] =
                            [job[r] EXCEPT !.orderArgs = args, !.bids = bids,
                                         !.pc = "postOrder"]]
               /\ submitted' = [submitted EXCEPT ![r] = @ + 1]
               /\ UNCHANGED result
    /\ UNCHANGED <<fails, notClose>>

\* postOrder resolved with resp.success === true
CloseOrderFilled(r) ==
    /\ job[r].pc = "postOrder"
    /\ ToLoopHead(r, OnFill(job[r]))
    /\ fails' = [fails EXCEPT ![r] = 0]
    /\ UNCHANGED <<submitted, notClose>>

\* postOrder resolved with a rejection
CloseOrderRejected(r) ==
    /\ job[r].pc = "postOrder"
    /\ AfterFailure(r, OnFailure(job[r]))
    /\ fails' = [fails EXCEPT ![r] = @ + 1]
    /\ UNCHANGED <<submitted, notClose>>

\* getOrderBook, createMarketOrder or postOrder threw: the catch block
CloseAttemptThrows(r) ==
    /\ job[r].pc \in {"getOrderBook", "postOrder"}
    /\ AfterFailure(r, OnFailure(job[r]))
    /\ fails' = [fails EXCEPT ![r] = @ + 1]
    /\ UNCHANGED <<submitted, notClose>>

\* the one-second backoff elapsed
CloseBackoffElapsed(r) ==
    /\ job[r].pc = "backoff"
    /\ ToLoopHead(r, job[r])
    /\ UNCHANGED <<submitted, fails, notClose>>

InitClose ==
    /\ job = [r \in Requests |-> IdleJob]
    /\ result = [r \in Requests |-> NoResult]
    /\ submitted = [r \in Requests |-> 0]
    /\ fails = [r \in Requests |-> 0]

\* one closePosition call after another is a behaviour of a single request
CloseStep(r, percentages, positionLists, books) ==
    \/ CloseCall(r, percentages)
    \/ ClosePositionsFetched(r, positionLists)
    \/ CloseSetupThrows(r)
    \/ CloseBalanceUpdated(r)
    \/ CloseOrderBookFetched(r, books)
    \/ CloseOrderFilled(r)
    \/ CloseOrderRejected(r)
    \/ CloseAttemptThrows(r)
    \/ CloseBackoffElapsed(r)

\* a single call, over all inputs
NextClose ==
    CloseStep("r1", Percentages, SeqsUpTo(PositionT, MaxPositions),
              SeqsUpTo(BidT, MaxBids))

\* the calls of several requests served at the same time (POST /:asset/close,
\* POST /close-all), each closing a whole position of 4 units
NextCloseConcurrent ==
    \E r \in Requests :
        CloseStep(r, {100}, {<<[asset |-> a, size |-> 4]>> : a \in Assets},
                  SeqsUpTo(BidT, 1))

\* a single call that closes a lone position by half or entirely, over the
\* books of at most one bid (only the best bid of a book is used)
NextCloseOneBid ==
    CloseStep("r1", {50, 100},
              {<<[asset |-> "a1", size |-> size]>> : size \in PositionSizes},
              {<<>>} \cup {<<bid>> : bid \in BidT})

\* bids of 30 and 25 tokens at 0.60 and 0.55, in units of 0.005 token and of
\* 0.01 of price
HalfBidT == [price : {55, 60}, size : {5000, 6000}]

\* a single call on a position of 100 tokens (20000 units) or less, closed by
\* half or entirely
NextCloseHalf ==
    CloseStep("r1", {50, 100},
              {<<[asset |-> "a1", size |-> size]>> : size \in {2, 12000, 20000}},
              SeqsUpTo(HalfBidT, 2))

(***************************************************************************)
(* WebSocketTradeMonitor: connection, reconnection and fallback            *)
(***************************************************************************)

\* parseInt(process.env.WS_RECONNECT_ATTEMPTS || '10', 10)
WS_RECONNECT_ATTEMPTS == 10

\* parseInt(process.env.WS_RECONNECT_DELAY || '1000', 10)
WS_RECONNECT_DELAY == 1000

\* most reconnect timers armed and not yet fired in the model
MaxTimers == 2

\* most RealTimeDataClient objects created and not torn down in the model
MaxClients == 2

RECURSIVE Pow2(_)
Pow2(n) == IF n = 0 THEN 1 ELSE 2 * Pow2(n - 1)

FallbackEvent == [ev |-> "fallback", delay |-> 0]

ClientCreated == [ev |-> "client", delay |-> 0]

TimerArmed(delay) == [ev |-> "timer", delay |-> delay]

\* a faulty backoff that grows linearly
ReconnectDelayLinear(n) == WS_RECONNECT_DELAY * (n + 1)

\* WS_RECONNECT_DELAY * Math.pow(2, this.reconnectAttempts)
ReconnectDelay(n) == WS_RECONNECT_DELAY * Pow2(n)

\* a faulty check that allows one reconnection more
InFallbackBranchLate(n) == n > WS_RECONNECT_ATTEMPTS

\* scheduleReconnect() entered with useFallback false: fallback at the maximum
InFallbackBranch(n) == n >= WS_RECONNECT_ATTEMPTS

\* scheduleReconnect(), called last by a handler that has already put `out`
\* and left `armed` timers armed
scheduleReconnect(out, armed) ==
    IF useFallback
    THEN /\ wsOut' = out
         /\ timers' = armed
         /\ UNCHANGED <<useFallback, reconnectAttempts>>
    ELSE IF InFallbackBranch(reconnectAttempts)
    THEN /\ useFallback' = TRUE
         /\ wsOut' = Append(out, FallbackEvent)
         /\ timers' = armed
         /\ UNCHANGED reconnectAttempts
    ELSE /\ armed < MaxTimers
         /\ reconnectAttempts' = reconnectAttempts + 1
         /\ timers' = armed + 1
         /\ wsOut' = Append(out, TimerArmed(ReconnectDelay(reconnectAttempts)))
         /\ UNCHANGED useFallback

\* connect() rejected (no code path produces it)
Rejection == [ev |-> "rejected", delay |-> 0]

\* a faulty connect() without its try/catch: the throw reaches the caller
connectCatchMissing(out, armed) ==
    /\ wsOut' = Append(out, Rejection)
    /\ timers' = armed
    /\ UNCHANGED <<useFallback, reconnectAttempts>>

\* catch (error) { Logger.error(...); this.scheduleReconnect(); }
connectCatch(out, armed) == scheduleReconnect(out, armed)

\* a faulty guard that ignores fallback mode
NeverSkipsConnection == FALSE

\* the guard that opens connect() and the reconnect timer's callback
SkipsConnection == useFallback

\* connect(), with `armed` timers left armed by its caller.  Past the fallback
\* check the client is created and connected, or the constructor throws
\* (this.client keeps its value), or client.connect() throws (this.client is
\* the new object); a throw ends in scheduleReconnect()
connect(armed) ==
    IF SkipsConnection
    THEN /\ wsOut' = <<>>
         /\ timers' = armed
         /\ UNCHANGED <<client, isConnected, reconnectAttempts, useFallback,
                        liveClients>>
    ELSE \/ /\ liveClients < MaxClients
            /\ client' = "set"
            /\ liveClients' = liveClients + 1
            /\ wsOut' = <<ClientCreated>>
            /\ timers' = armed
            /\ UNCHANGED <<isConnected, reconnectAttempts, useFallback>>
         \/ /\ UNCHANGED <<client, liveClients, isConnected>>
            /\ connectCatch(<<>>, armed)
         \/ /\ liveClients < MaxClients
            /\ client' = "set"
            /\ liveClients' = liveClients + 1
            /\ UNCHANGED isConnected
            /\ connectCatch(<<ClientCreated>>, armed)

\* connect() called by the program
Connect ==
    /\ connect(timers)
    /\ lastCall' = "connect"
    /\ UNCHANGED notMon

\* onConnect of a live client: handleConnect (a failing subscribe is only logged)
HandleConnect ==
    /\ liveClients > 0
    /\ isConnected' = TRUE
    /\ reconnectAttempts' = 0
    /\ wsOut' = <<>>
    /\ UNCHANGED <<client, useFallback, timers, liveClients, lastCall, notMon>>

\* onStatusChange of a live client: handleStatusChange(status)
HandleStatusChange(status) ==
    /\ liveClients > 0
    /\ CASE status = "CONNECTED" ->
              /\ isConnected' = TRUE
              /\ wsOut' = <<>>
              /\ UNCHANGED <<client, reconnectAttempts, useFallback, timers,
                             liveClients>>
         [] status = "CONNECTING" ->
              /\ wsOut' = <<>>
              /\ UNCHANGED <<client, isConnected, reconnectAttempts, useFallback,
                             timers, liveClients>>
         [] status = "DISCONNECTED" ->
              /\ isConnected' = FALSE
              /\ UNCHANGED <<client, liveClients>>
              /\ scheduleReconnect(<<>>, timers)
    /\ UNCHANGED <<lastCall, notMon>>

\* a reconnect timer fires: if (!this.useFallback) this.connect()
ReconnectTimerFires ==
    /\ timers > 0
    /\ IF SkipsConnection
       THEN /\ timers' = timers - 1
            /\ wsOut' = <<>>
            /\ UNCHANGED <<client, isConnected, reconnectAttempts, useFallback,
                           liveClients>>
       ELSE connect(timers - 1)
    /\ UNCHANGED <<lastCall, notMon>>

\* disconnect()
Disconnect ==
    /\ client' = "null"
    /\ liveClients' = IF client = "set" THEN liveClients - 1 ELSE liveClients
    /\ isConnected' = FALSE
    /\ wsOut' = <<>>
    /\ lastCall' = "disconnect"
    /\ UNCHANGED <<reconnectAttempts, useFallback, timers, notMon>>

\* a faulty resetFallback() that reconnects at once
ResetFallbackReconnecting ==
    /\ liveClients < MaxClients
    /\ useFallback' = FALSE
    /\ reconnectAttempts' = 0
    /\ client' = "set"
    /\ liveClients' = liveClients + 1
    /\ wsOut' = <<ClientCreated>>
    /\ lastCall' = "resetFallback"
    /\ UNCHANGED <<isConnected, timers, notMon>>

\* resetFallback()
ResetFallback ==
    /\ useFallback' = FALSE
    /\ reconnectAttempts' = 0
    /\ wsOut' = <<>>
    /\ lastCall' = "resetFallback"
    /\ UNCHANGED <<client, isConnected, timers, liveClients, notMon>>

InitMonitor ==
    /\ client = "null"
    /\ isConnected = FALSE
    /\ reconnectAttempts = 0
    /\ useFallback = FALSE
    /\ timers = 0
    /\ liveClients = 0
    /\ wsOut = <<>>
    /\ lastCall = "none"

NextMonitor ==
    \/ Connect
    \/ HandleConnect
    \/ \E status \in {"CONNECTED", "CONNECTING", "DISCONNECTED"} :
           HandleStatusChange(status)
    \/ ReconnectTimerFires
    \/ Disconnect
    \/ ResetFallback

(***************************************************************************)
(* WebSocketTradeMonitor: handleMessage, storeTrade                        *)
(***************************************************************************)

\* ENV.TOO_OLD_TIMESTAMP, hours
TOO_OLD_TIMESTAMP == 1

\* the clock runs from 0 to MaxNow hours
MaxNow == 2

\* inbound messages delivered in one behaviour
MaxMessages == 2

\* ENV.USER_ADDRESSES
USER_ADDRESSES == <<"0xA", "0xB">>

\* the configured addresses, which name the collections user_activities_<address>
Collections == {USER_ADDRESSES[k] : k \in 1..Len(USER_ADDRESSES)}

\* the addresses inbound messages carry; "none" is an absent user.address
MessageAddresses == {"0xA", "0xa", "0xC", "none"}

\* the timestamps inbound messages carry
MessageTimes == {0, MaxNow}

\* handleMessage invocations that can be in progress at once
Handlers == {"h1", "h2"}

Hashes == {"tx1", "tx2"}

TradeSizes == {1, 2}

\* String.prototype.toLowerCase on the addresses of the model
ToLowerCase(a) ==
    CASE a = "0xA" -> "0xa"
      [] a = "0xB" -> "0xb"
      [] a = "0xC" -> "0xc"
      [] OTHER -> a

\* this.trackedAddresses, and the addresses of userModels
trackedAddresses == {ToLowerCase(a) : a \in Collections}

\* userModels.find((m) => m.address === userAddress): the collection of the
\* first configured address that is userAddress in lower case
RECURSIVE UserModelFrom(_, _)
UserModelFrom(userAddress, k) ==
    IF ToLowerCase(USER_ADDRESSES[k]) = userAddress THEN USER_ADDRESSES[k]
    ELSE UserModelFrom(userAddress, k + 1)

UserModel(userAddress) == UserModelFrom(userAddress, 1)

\* payload.timestamp: absent, or a date string denoting the hour `sec`
TimestampT ==
    {[fmt |-> "absent", sec |-> 0]} \cup [fmt : {"iso"}, sec : MessageTimes]

PayloadT ==
    [address : MessageAddresses, transaction_hash : Hashes, size : TradeSizes,
     timestamp : TimestampT]

MessageT ==
    [topic : {"activity", "comments"}, type : {"trades", "orders_matched"},
     payload : PayloadT]

IdleHandler ==
    [pc |-> "idle", userAddress |-> "none", timestamp |-> 0,
     payload |-> [transaction_hash |-> "tx1", size |-> 1,
                  timestamp |-> [fmt |-> "absent", sec |-> 0]]]

\* the fields of the payload that are read after the address check
Used(payload) ==
    [transaction_hash |-> payload.transaction_hash, size |-> payload.size,
     timestamp |-> payload.timestamp]

\* storeTrade's timestamp: Date.parse, else parseInt, else the clock
ParseTimestamp(ts, clock) ==
    IF ts.fmt = "absent" THEN clock ELSE ts.sec

\* a faulty cutoff that lets every trade through
TooOldNever(timestamp, clock) == FALSE

\* if (timestamp < cutoffTime): skipped as too old
TooOld(timestamp, clock) == timestamp < clock - TOO_OLD_TIMESTAMP

\* UserActivity.findOne({ transactionHash }) on a collection
FindOne(collection, hash) ==
    \E k \in 1..Len(collection) : collection[k].transactionHash = hash

\* new UserActivity({...})
NewActivity(h) ==
    [proxyWallet |-> h.userAddress, timestamp |-> h.timestamp,
     transactionHash |-> h.payload.transaction_hash, size |-> h.payload.size,
     bot |-> FALSE]

\* this.emit('trade', { userAddress, ...normalizeTradePayload(payload) }): the
\* event, by the fields that identify the trade
TradeEventOf(h) ==
    [userAddress |-> h.userAddress, transactionHash |-> h.payload.transaction_hash]

\* the message is a trade of a tracked wallet
IsTrackedTrade(message) ==
    /\ message.topic = "activity"
    /\ message.type = "trades"
    /\ message.payload.address # "none"
    /\ ToLowerCase(message.payload.address) \in trackedAddresses

\* a faulty storeTrade that saves whatever the lookup found
NeverSkipsSave(existingActivity) == FALSE

\* storeTrade found the record: if (existingActivity) return
SkipsSave(existingActivity) == existingActivity

\* storeTrade has returned to handleMessage: the event is emitted
EmitAndFinish(h, returned) ==
    /\ msgOut' = <<TradeEventOf(handler[h])>>
    /\ storeOut' = returned
    /\ handler' = [handler EXCEPT ![h] = IdleHandler]

\* onMessage: handleMessage(message) up to its first await
HandleMessageOf(h, message) ==
    /\ handler[h].pc = "idle"
    /\ received < MaxMessages
    /\ received' = received + 1
    /\ IF ~IsTrackedTrade(message)
       THEN /\ msgOut' = <<>>
            /\ storeOut' = "none"
            /\ UNCHANGED handler
       ELSE LET inv == [pc |-> "findOne",
                        userAddress |-> ToLowerCase(message.payload.address),
                        timestamp |-> ParseTimestamp(message.payload.timestamp, now),
                        payload |-> Used(message.payload)]
            IN IF TooOld(inv.timestamp, now)
               THEN /\ msgOut' = <<TradeEventOf(inv)>>
                    /\ storeOut' = "too old"
                    /\ UNCHANGED handler
               ELSE /\ msgOut' = <<>>
                    /\ storeOut' = "none"
                    /\ handler' = [handler EXCEPT ![h] = inv]
    /\ UNCHANGED <<store, now, inbound, notStore>>

\* onMessage with any message of the feed
HandleMessage(h) ==
    /\ handler[h].pc = "idle"
    /\ received < MaxMessages
    /\ \E message \in MessageT : HandleMessageOf(h, message)

\* onMessage with the message singled out (the feed may deliver it again)
HandleInbound(h) == HandleMessageOf(h, inbound)

\* findOne resolved
StoreFindOneResolved(h) ==
    /\ handler[h].pc = "findOne"
    /\ IF SkipsSave(FindOne(store[UserModel(handler[h].userAddress)],
                            handler[h].payload.transaction_hash))
       THEN EmitAndFinish(h, "exists")
       ELSE /\ handler' = [handler EXCEPT ![h].pc = "save"]
            /\ msgOut' = <<>>
            /\ storeOut' = "none"
    /\ UNCHANGED <<store, received, now, inbound, notStore>>

\* newActivity.save() resolved
StoreSaveResolved(h) ==
    /\ handler[h].pc = "save"
    /\ store' = [store EXCEPT ![UserModel(handler[h].userAddress)] =
                    Append(@, NewActivity(handler[h]))]
    /\ EmitAndFinish(h, "stored")
    /\ UNCHANGED <<received, now, inbound, notStore>>

\* findOne or save rejected: handleMessage's catch logs the error
StoreThrows(h) ==
    /\ handler[h].pc \in {"findOne", "save"}
    /\ handler' = [handler EXCEPT ![h] = IdleHandler]
    /\ msgOut' = <<>>
    /\ storeOut' = "none"
    /\ UNCHANGED <<store, received, now, inbound, notStore>>

\* an hour passes
Tick ==
    /\ now < MaxNow
    /\ now' = now + 1
    /\ msgOut' = <<>>
    /\ storeOut' = "none"
    /\ UNCHANGED <<store, handler, received, inbound, notStore>>

\* a message of another topic, standing in where no message is singled out
DefaultMessage ==
    [topic |-> "comments", type |-> "orders_matched",
     payload |-> [address |-> "none", transaction_hash |-> "tx1", size |-> 1,
                  timestamp |-> [fmt |-> "absent", sec |-> 0]]]

InitHandlers ==
    /\ store = [a \in Collections |-> <<>>]
    /\ handler = [h \in Handlers |-> IdleHandler]
    /\ received = 0
    /\ now = 0
    /\ msgOut = <<>>
    /\ storeOut = "none"

InitStore ==
    /\ InitHandlers
    /\ inbound = DefaultMessage

NextStore ==
    \/ \E h \in Handlers : HandleMessage(h)
    \/ \E h \in Handlers : StoreFindOneResolved(h)
    \/ \E h \in Handlers : StoreSaveResolved(h)
    \/ \E h \in Handlers : StoreThrows(h)
    \/ Tick

\* the messages delivered where the connection runs alongside: a trade or
\* another event, of a tracked or an untracked wallet
EntryMessages ==
    {m \in MessageT :
        /\ m.topic = "activity"
        /\ m.payload.address \in {"0xA", "0xC"}
        /\ m.payload.transaction_hash = "tx1"
        /\ m.payload.size = 1
        /\ m.payload.timestamp.fmt = "absent"}

\* onMessage of a live client
ClientDelivers(h) ==
    /\ liveClients > 0
    /\ HandleInbound(h)

\* every entry point of the monitor: connect(), the callbacks of its clients
\* (onConnect, onStatusChange, onMessage with its awaits) and the reconnect
\* timer
NextEntry ==
    \/ Connect
    \/ HandleConnect
    \/ \E status \in {"CONNECTED", "CONNECTING", "DISCONNECTED"} :
           HandleStatusChange(status)
    \/ ReconnectTimerFires
    \/ ClientDelivers("h1")
    \/ StoreFindOneResolved("h1")
    \/ StoreSaveResolved("h1")
    \/ StoreThrows("h1")

\* the handling of one message of the feed, whichever it is, delivered up to
\* MaxMessages times while the clock runs
NextMessage ==
    \/ \E h \in Handlers : HandleInbound(h)
    \/ \E h \in Handlers : StoreFindOneResolved(h)
    \/ \E h \in Handlers : StoreSaveResolved(h)
    \/ \E h \in Handlers : StoreThrows(h)
    \/ Tick

(***************************************************************************)
(* redeemAllResolved.  Prices are in hundredths, sizes in units of 0.0001  *)
(* token, values in an arbitrary unit.                                     *)
(***************************************************************************)

\* 0.99
RESOLVED_HIGH == 99

\* 0.01
RESOLVED_LOW == 1

\* 0.0001
ZERO_THRESHOLD == 1

\* longest position list the data API returns to the redemption in the model
MaxRedeemPositions == 3

ConditionIds == {"cA", "cB"}

RedeemPositionT ==
    [conditionId : ConditionIds, size : {1, 2}, curPrice : {1, 50, 99},
     redeemable : BOOLEAN, currentValue : {1, 2}]

\* how one redeemPosition call can go: the receipt has status 1, the receipt
\* has another status, no fee estimate, or getFeeData / redeemPositions /
\* wait / the encoding of the condition id throws
RedeemOutcomes == {"confirmed", "reverted", "nofee", "thrown"}

\* loadPositions: positions.filter((pos) => (pos.size || 0) > ZERO_THRESHOLD)
LoadFilter(pos) == pos.size > ZERO_THRESHOLD

\* a faulty filter that trusts the price alone
RedeemableFilterByPrice(pos) ==
    pos.curPrice >= RESOLVED_HIGH \/ pos.curPrice <= RESOLVED_LOW

\* the filter of getRedeemablePositions and redeemAllResolved
RedeemableFilter(pos) ==
    /\ (pos.curPrice >= RESOLVED_HIGH \/ pos.curPrice <= RESOLVED_LOW)
    /\ pos.redeemable = TRUE

IsRedeemable(pos) == LoadFilter(pos) /\ RedeemableFilter(pos)

\* index of the group of condition id c, 0 if there is none yet
RECURSIVE GroupIndex(_, _, _)
GroupIndex(gs, c, k) ==
    IF k > Len(gs) THEN 0
    ELSE IF gs[k].conditionId = c THEN k
    ELSE GroupIndex(gs, c, k + 1)

\* positionsByCondition after the forEach: a Map keeps insertion order
RECURSIVE GroupByCondition(_, _)
GroupByCondition(positions, gs) ==
    IF positions = <<>> THEN gs
    ELSE LET pos == Head(positions)
             k == GroupIndex(gs, pos.conditionId, 1)
         IN GroupByCondition(
                Tail(positions),
                IF k = 0
                THEN Append(gs, [conditionId |-> pos.conditionId,
                                 positions |-> <<pos>>])
                ELSE [gs EXCEPT ![k].positions = Append(@, pos)])

\* a faulty iteration that takes the groups newest first
GroupEntriesReversed(redeemable) ==
    LET gs == GroupByCondition(redeemable, <<>>)
    IN [k \in 1..Len(gs) |-> gs[Len(gs) + 1 - k]]

\* Array.from(positionsByCondition.entries())
GroupEntries(redeemable) == GroupByCondition(redeemable, <<>>)

\* positions.reduce((sum, pos) => sum + pos.currentValue, 0)
RECURSIVE SumValue(_)
SumValue(positions) ==
    IF positions = <<>> THEN 0
    ELSE Head(positions).currentValue + SumValue(Tail(positions))

\* a faulty payload: the last position of the group
PayloadLast(group) == group.positions[Len(group.positions)]

\* the position redeemPosition is called with for a group
Payload(group) == group.positions[1]

\* a faulty redeemPosition whose try block ends before the transaction is
\* sent: a thrown transport or contract error leaves the function
redeemPositionThrowing(outcome) ==
    CASE outcome = "confirmed" ->
            [threw |-> FALSE, success |-> TRUE, error |-> "none"]
      [] outcome = "reverted" ->
            [threw |-> FALSE, success |-> FALSE, error |-> "Transaction reverted"]
      [] outcome = "nofee" ->
            [threw |-> FALSE, success |-> FALSE,
             error |-> "Could not determine gas price"]
      [] OTHER ->
            [threw |-> TRUE, success |-> FALSE, error |-> "error.message"]

\* redeemPosition: what the call returns, or that it throws, for each way the
\* transaction can go; the try block covers the whole body
redeemPosition(outcome) ==
    CASE outcome = "confirmed" ->
            [threw |-> FALSE, success |-> TRUE, error |-> "none"]
      [] outcome = "reverted" ->
            [threw |-> FALSE, success |-> FALSE, error |-> "Transaction reverted"]
      [] outcome = "nofee" ->
            [threw |-> FALSE, success |-> FALSE,
             error |-> "Could not determine gas price"]
      [] OTHER ->
            [threw |-> FALSE, success |-> FALSE, error |-> "error.message"]

EmptyRedeemResult ==
    [success |-> FALSE, redeemedCount |-> 0, failedCount |-> 0, totalValue |-> 0,
     error |-> "none", details |-> <<>>]

\* a faulty record that adds the value of a failed group to the total
RecordGroupAddingAll(res, group, redeemed) ==
    LET value == SumValue(group.positions) IN
    IF redeemed.success
    THEN [res EXCEPT !.redeemedCount = @ + 1,
                     !.totalValue = @ + value,
                     !.details = Append(@, [conditionId |-> group.conditionId,
                                            success |-> TRUE, value |-> value,
                                            error |-> "none"])]
    ELSE [res EXCEPT !.failedCount = @ + 1,
                     !.totalValue = @ + value,
                     !.details = Append(@, [conditionId |-> group.conditionId,
                                            success |-> FALSE, value |-> value,
                                            error |-> redeemed.error])]

\* the if/else after redeemPosition returned
RecordGroup(res, group, redeemed) ==
    LET value == SumValue(group.positions) IN
    IF redeemed.success
    THEN [res EXCEPT !.redeemedCount = @ + 1,
                     !.totalValue = @ + value,
                     !.details = Append(@, [conditionId |-> group.conditionId,
                                            success |-> TRUE, value |-> value,
                                            error |-> "none"])]
    ELSE [res EXCEPT !.failedCount = @ + 1,
                     !.details = Append(@, [conditionId |-> group.conditionId,
                                            success |-> FALSE, value |-> value,
                                            error |-> redeemed.error])]

\* a faulty verdict that reports success only when nothing failed
OverallSuccessStrict(res) == res.failedCount = 0

\* result.success = result.redeemedCount > 0 || result.failedCount === 0
OverallSuccess(res) == res.redeemedCount > 0 \/ res.failedCount = 0

\* the loop moves to group k: redeemPosition is called with its first position,
\* or, past the last group, the call returns
ToGroup(k, res) ==
    IF k <= Len(groups')
    THEN /\ gi' = k
         /\ rpc' = "redeemPosition"
         /\ attempts' = Append(attempts, Payload(groups'[k]))
         /\ redeemResult' = res
    ELSE /\ gi' = k
         /\ rpc' = "returned"
         /\ redeemResult' = [res EXCEPT !.success = OverallSuccess(res)]
         /\ UNCHANGED attempts

\* redeemAllResolved() up to the await of loadPositions
RedeemCall ==
    /\ rpc = "idle"
    /\ rpc' = "loadPositions"
    /\ redeemResult' = EmptyRedeemResult
    /\ UNCHANGED <<redeemablePositions, groups, gi, attempts, outcomes, notRedeem>>

\* loadPositions resolved with the filtered data: filter, early return,
\* grouping, first redeemPosition
RedeemPositionsLoadedWith(data) ==
    /\ rpc = "loadPositions"
    /\ LET allPositions == SelectSeq(data, LoadFilter)
           redeemable == SelectSeq(allPositions, RedeemableFilter)
       IN /\ redeemablePositions' = redeemable
          /\ IF Len(redeemable) = 0
             THEN /\ rpc' = "returned"
                  /\ redeemResult' = [redeemResult EXCEPT
                                        !.success = TRUE,
                                        !.error = "No positions to redeem"]
                  /\ UNCHANGED <<groups, gi, attempts>>
             ELSE /\ groups' = GroupEntries(redeemable)
                  /\ ToGroup(1, redeemResult)
    /\ UNCHANGED <<outcomes, notRedeem>>

\* loadPositions resolved, over every answer of the data API
RedeemPositionsLoaded ==
    /\ rpc = "loadPositions"
    /\ \E n \in 0..MaxRedeemPositions : \E data \in [1..n -> RedeemPositionT] :
           RedeemPositionsLoadedWith(data)

\* loadPositions resolved with the positions the data API holds
RedeemApiDataLoaded == RedeemPositionsLoadedWith(apiData)

\* loadPositions rejected, or the provider, wallet or contract could not be
\* built: the catch of redeemAllResolved
RedeemSetupThrows ==
    /\ rpc = "loadPositions"
    /\ rpc' = "returned"
    /\ redeemResult' = [redeemResult EXCEPT !.error = "error.message"]
    /\ UNCHANGED <<redeemablePositions, groups, gi, attempts, outcomes, notRedeem>>

\* redeemPosition settled: the group is recorded, then the 2-second delay when
\* there are several groups, else the next group
RedeemPositionSettled(outcome) ==
    /\ rpc = "redeemPosition"
    /\ outcomes' = Append(outcomes, outcome)
    /\ UNCHANGED <<redeemablePositions, groups>>
    /\ LET redeemed == redeemPosition(outcome) IN
       IF redeemed.threw
       THEN /\ rpc' = "returned"
            /\ redeemResult' = [redeemResult EXCEPT !.error = redeemed.error]
            /\ UNCHANGED <<gi, attempts>>
       ELSE LET res == RecordGroup(redeemResult, groups[gi], redeemed) IN
            IF Len(groups) > 1
            THEN /\ rpc' = "delay"
                 /\ redeemResult' = res
                 /\ UNCHANGED <<gi, attempts>>
            ELSE ToGroup(gi + 1, res)
    /\ UNCHANGED notRedeem

\* the delay between two groups elapsed
RedeemDelayElapsed ==
    /\ rpc = "delay"
    /\ UNCHANGED <<redeemablePositions, groups, outcomes>>
    /\ ToGroup(gi + 1, redeemResult)
    /\ UNCHANGED notRedeem

InitRedeem ==
    /\ rpc = "idle"
    /\ redeemablePositions = <<>>
    /\ groups = <<>>
    /\ gi = 0
    /\ redeemResult = EmptyRedeemResult
    /\ attempts = <<>>
    /\ outcomes = <<>>

NextRedeem ==
    \/ RedeemCall
    \/ RedeemPositionsLoaded
    \/ RedeemSetupThrows
    \/ \E outcome \in RedeemOutcomes : RedeemPositionSettled(outcome)
    \/ RedeemDelayElapsed

(***************************************************************************)
(* getRedeemablePositions, beside redeemAllResolved on the same data       *)
(***************************************************************************)

\* longest answer of the data API where both functions read the same one
MaxApiPositions == 2

NoSummary == [pc |-> "idle", redeemable |-> <<>>, total |-> 0, totalValue |-> 0]

\* getRedeemablePositions() up to the await of loadPositions
GetRedeemableCall ==
    /\ summary.pc = "idle"
    /\ summary' = [summary EXCEPT !.pc = "loadPositions"]
    /\ UNCHANGED <<apiData, redeemTx, notApi>>

\* loadPositions resolved: filter, reduce, return
GetRedeemableLoaded ==
    /\ summary.pc = "loadPositions"
    /\ LET allPositions == SelectSeq(apiData, LoadFilter)
           redeemable == SelectSeq(allPositions, RedeemableFilter)
       IN summary' = [pc |-> "returned", redeemable |-> redeemable,
                      total |-> Len(redeemable),
                      totalValue |-> SumValue(redeemable)]
    /\ UNCHANGED <<apiData, redeemTx, notApi>>

\* loadPositions rejected: getRedeemablePositions rejects
GetRedeemableThrows ==
    /\ summary.pc = "loadPositions"
    /\ summary' = [summary EXCEPT !.pc = "rejected"]
    /\ UNCHANGED <<apiData, redeemTx, notApi>>

(***************************************************************************)
(* redeemPosition, step by step.  Gas prices are in an arbitrary unit.     *)
(***************************************************************************)

\* largest gas price and fee the provider reports in the model
MaxGasPrice == 9

\* feeData.gasPrice, feeData.maxFeePerGas: null or a BigNumber
NullFee == [known |-> FALSE, value |-> 0]

FeeT == {NullFee} \cup [known : {TRUE}, value : 0..MaxGasPrice]

FeeDataT == [gasPrice : FeeT, maxFeePerGas : FeeT]

IdleTx ==
    [pc |-> "idle", fetched |-> FALSE,
     feeData |-> [gasPrice |-> NullFee, maxFeePerGas |-> NullFee],
     sent |-> <<>>, success |-> FALSE, error |-> "none"]

\* feeData.gasPrice || feeData.maxFeePerGas (a BigNumber is an object: truthy)
GasPriceOf(feeData) ==
    IF feeData.gasPrice.known THEN feeData.gasPrice ELSE feeData.maxFeePerGas

\* a faulty adjustment that divides before it multiplies
AdjustDividingFirst(gasPrice) == (gasPrice \div 100) * 120

\* gasPrice.mul(120).div(100)
Adjust(gasPrice) == (gasPrice * 120) \div 100

TxReturns(success, error) ==
    redeemTx' = [redeemTx EXCEPT !.pc = "returned", !.success = success,
                                 !.error = error]

\* redeemPosition(ctfContract, position) up to the await of getFeeData; the
\* encoding of the condition id may throw
RedeemTxCall ==
    /\ redeemTx.pc = "idle"
    /\ \/ redeemTx' = [redeemTx EXCEPT !.pc = "getFeeData"]
       \/ TxReturns(FALSE, "error.message")
    /\ UNCHANGED <<apiData, summary, notApi>>

\* getFeeData resolved: the gas price, and the call of redeemPositions
RedeemTxFeeData ==
    /\ redeemTx.pc = "getFeeData"
    /\ \E feeData \in FeeDataT :
       LET gasPrice == GasPriceOf(feeData) IN
       IF ~gasPrice.known
       THEN redeemTx' = [redeemTx EXCEPT
                           !.pc = "returned", !.fetched = TRUE,
                           !.feeData = feeData, !.success = FALSE,
                           !.error = "Could not determine gas price"]
       ELSE redeemTx' = [redeemTx EXCEPT
                           !.pc = "redeemPositions", !.fetched = TRUE,
                           !.feeData = feeData,
                           !.sent = Append(@, Adjust(gasPrice.value))]
    /\ UNCHANGED <<apiData, summary, notApi>>

\* redeemPositions resolved with the transaction
RedeemTxSent ==
    /\ redeemTx.pc = "redeemPositions"
    /\ redeemTx' = [redeemTx EXCEPT !.pc = "wait"]
    /\ UNCHANGED <<apiData, summary, notApi>>

\* tx.wait() resolved with the receipt
RedeemTxReceipt(status) ==
    /\ redeemTx.pc = "wait"
    /\ IF status = 1 THEN TxReturns(TRUE, "none")
       ELSE TxReturns(FALSE, "Transaction reverted")
    /\ UNCHANGED <<apiData, summary, notApi>>

\* getFeeData, redeemPositions or wait rejected: the catch
RedeemTxThrows ==
    /\ redeemTx.pc \in {"getFeeData", "redeemPositions", "wait"}
    /\ TxReturns(FALSE, "error.message")
    /\ UNCHANGED <<apiData, summary, notApi>>

NextRedeemTx ==
    \/ RedeemTxCall
    \/ RedeemTxFeeData
    \/ RedeemTxSent
    \/ \E status \in {0, 1} : RedeemTxReceipt(status)
    \/ RedeemTxThrows

InitApi ==
    /\ apiData = <<>>
    /\ summary = NoSummary
    /\ redeemTx = IdleTx

\* both functions called once each, in any order, on the same answer
NextRedeemable ==
    \/ GetRedeemableCall
    \/ GetRedeemableLoaded
    \/ GetRedeemableThrows
    \/ RedeemCall
    \/ RedeemApiDataLoaded
    \/ RedeemSetupThrows
    \/ \E outcome \in RedeemOutcomes : RedeemPositionSettled(outcome)
    \/ RedeemDelayElapsed

(***************************************************************************)
(* TradeEventEmitter: the polling emitter.  Timestamps are the numbers the *)
(* documents store, counted from the emitter's initial watermark.          *)
(***************************************************************************)

\* Date.now() - 24 * 60 * 60 * 1000 at construction: the origin of the axis
InitialWatermark == 0

\* .limit(10)
QueryLimit == 10

\* documents the collections hold in the model
MaxDocs == 2

\* largest timestamp of a document in the model
MaxTimestamp == 2

\* checkForNewTrades invocations that can be in progress at once: the initial
\* check of start() and the ticks of setInterval are not awaited
Polls == {"p1", "p2"}

DocTimestamps == 0..MaxTimestamp

\* _id of a document: its collection and its position in it
DocIds == Collections \X (1..MaxDocs)

\* i: the address the loop is at; since: the watermark the pending find was
\* issued with; trades: the trades gathered so far
IdlePoll == [pc |-> "idle", i |-> 0, since |-> 0, trades |-> <<>>]

\* trades.push({ id, timestamp, ..., traderAddress })
TradeEvent(userAddress, n, doc) ==
    [id |-> <<userAddress, n>>, timestamp |-> doc.timestamp,
     traderAddress |-> userAddress]

\* the filter of find: { bot: true, timestamp: { $gt: since } }
Matches(doc, since) == doc.bot = TRUE /\ doc.timestamp > since

\* the matching documents of a collection as trade events, from position n on
RECURSIVE FindFrom(_, _, _, _)
FindFrom(userAddress, collection, since, n) ==
    IF n > Len(collection) THEN <<>>
    ELSE IF Matches(collection[n], since)
    THEN <<TradeEvent(userAddress, n, collection[n])>>
             \o FindFrom(userAddress, collection, since, n + 1)
    ELSE FindFrom(userAddress, collection, since, n + 1)

\* inserts t into a sequence sorted by timestamp descending, after its equals
RECURSIVE InsertDesc(_, _)
InsertDesc(sorted, t) ==
    IF sorted = <<>> THEN <<t>>
    ELSE IF t.timestamp > Head(sorted).timestamp THEN <<t>> \o sorted
    ELSE <<Head(sorted)>> \o InsertDesc(Tail(sorted), t)

\* sort by timestamp descending (stable)
RECURSIVE SortDesc(_)
SortDesc(ts) ==
    IF ts = <<>> THEN <<>>
    ELSE InsertDesc(SortDesc(SubSeq(ts, 1, Len(ts) - 1)), ts[Len(ts)])

\* collection.find(...).sort({ timestamp: -1 }).limit(10).toArray()
Find(userAddress, collection, since) ==
    LET sorted == SortDesc(FindFrom(userAddress, collection, since, 1))
    IN SubSeq(sorted, 1, Min(Len(sorted), QueryLimit))

\* Math.max(watermark, ...trades.map((t) => t.timestamp))
RECURSIVE MaxTimestampOf(_, _)
MaxTimestampOf(watermark, ts) ==
    IF ts = <<>> THEN watermark
    ELSE MaxTimestampOf(Max(watermark, Head(ts).timestamp), Tail(ts))

\* a faulty emission that trusts the filter of the query
IsEmittedUnchecked(trade, watermark) == TRUE

\* if (trade.timestamp > this.lastCheckedTimestamp) this.emit('trade', trade)
IsEmitted(trade, watermark) == trade.timestamp > watermark

\* a faulty update that leaves the current watermark out of Math.max
NewWatermarkOfTrades(watermark, ts) ==
    IF Len(ts) > 0 THEN MaxTimestampOf(Head(ts).timestamp, ts) ELSE watermark

\* the watermark after a poll that gathered ts
NewWatermark(watermark, ts) ==
    IF Len(ts) > 0 THEN MaxTimestampOf(watermark, ts) ELSE watermark

\* number of events of a sequence that carry the id
RECURSIVE CountId(_, _)
CountId(events, id) ==
    IF events = <<>> THEN 0
    ELSE (IF Head(events).id = id THEN 1 ELSE 0) + CountId(Tail(events), id)

\* checkForNewTrades after its loop: sort, emit, advance the watermark
FinishPoll(p, gathered) ==
    LET trades == SortDesc(gathered)
        emitted == SelectSeq(trades, LAMBDA t : IsEmitted(t, lastCheckedTimestamp))
    IN /\ pollOut' = emitted
       /\ emitCount' = [id \in DocIds |-> emitCount[id] + CountId(emitted, id)]
       /\ lastCheckedTimestamp' = NewWatermark(lastCheckedTimestamp, trades)
       /\ poll' = [poll EXCEPT ![p] = IdlePoll]

\* the head of the loop over ENV.USER_ADDRESSES, at address number i
ToAddress(p, i, gathered) ==
    IF i > Len(USER_ADDRESSES)
    THEN FinishPoll(p, gathered)
    ELSE /\ poll' = [poll EXCEPT ![p] =
                        [pc |-> "listCollections", i |-> i, since |-> 0,
                         trades |-> gathered]]
         /\ pollOut' = <<>>
         /\ UNCHANGED <<lastCheckedTimestamp, emitCount>>

\* checkForNewTrades up to its first await; hasDb: mongoose.connection.db is set
checkForNewTrades(p, hasDb) ==
    IF ~hasDb
    THEN /\ pollOut' = <<>>
         /\ UNCHANGED <<lastCheckedTimestamp, emitCount, poll>>
    ELSE ToAddress(p, 1, <<>>)

\* start() past its guard: the flag, the interval, the initial check
StartBody ==
    /\ isRunning' = TRUE
    /\ pollingInterval' = "set"
    /\ intervals' = intervals + 1
    /\ \E p \in Polls :
          /\ poll[p].pc = "idle"
          /\ \E hasDb \in BOOLEAN : checkForNewTrades(p, hasDb)

\* a faulty start() without `if (this.isRunning) return`
startUnguarded == StartBody

\* start(), as the stream route calls it
start ==
    IF isRunning
    THEN /\ pollOut' = <<>>
         /\ UNCHANGED <<isRunning, pollingInterval, intervals, poll,
                        lastCheckedTimestamp, emitCount>>
    ELSE StartBody

\* stop(): clearInterval when the handle is set
stop ==
    /\ pollingInterval' = "null"
    /\ intervals' = IF pollingInterval = "set" THEN intervals - 1 ELSE intervals
    /\ isRunning' = FALSE
    /\ pollOut' = <<>>
    /\ UNCHANGED <<lastCheckedTimestamp, poll, emitCount>>

\* start() on an emitter that is not running
EmitterStart ==
    /\ ~isRunning
    /\ StartBody
    /\ UNCHANGED <<store, notPoll>>

\* stop()
EmitterStop ==
    /\ stop
    /\ UNCHANGED <<store, notPoll>>

\* a tick of setInterval(() => this.checkForNewTrades(), 2000)
PollIntervalFires ==
    /\ intervals > 0
    /\ \E p \in Polls :
          /\ poll[p].pc = "idle"
          /\ \E hasDb \in BOOLEAN : checkForNewTrades(p, hasDb)
    /\ UNCHANGED <<isRunning, pollingInterval, intervals, store, notPoll>>

\* listCollections resolved: the collection is skipped, or find is issued
PollCollectionsListed(p) ==
    /\ poll[p].pc = "listCollections"
    /\ IF store[USER_ADDRESSES[poll[p].i]] = <<>>
       THEN ToAddress(p, poll[p].i + 1, poll[p].trades)
       ELSE /\ poll' = [poll EXCEPT ![p].pc = "find",
                                    ![p].since = lastCheckedTimestamp]
            /\ pollOut' = <<>>
            /\ UNCHANGED <<lastCheckedTimestamp, emitCount>>
    /\ UNCHANGED <<isRunning, pollingInterval, intervals, store, notPoll>>

\* find resolved: its documents are pushed, the loop goes on
PollFound(p) ==
    /\ poll[p].pc = "find"
    /\ LET userAddress == USER_ADDRESSES[poll[p].i]
           newTrades == Find(userAddress, store[userAddress], poll[p].since)
       IN ToAddress(p, poll[p].i + 1, poll[p].trades \o newTrades)
    /\ UNCHANGED <<isRunning, pollingInterval, intervals, store, notPoll>>

\* listCollections or find rejected: the catch logs the error
PollThrows(p) ==
    /\ poll[p].pc \in {"listCollections", "find"}
    /\ poll' = [poll EXCEPT ![p] = IdlePoll]
    /\ pollOut' = <<>>
    /\ UNCHANGED <<lastCheckedTimestamp, isRunning, pollingInterval, emitCount,
                   intervals, store, notPoll>>

\* a document appears in a collection the emitter reads
ActivityStored ==
    /\ Len(store[USER_ADDRESSES[1]]) + Len(store[USER_ADDRESSES[2]]) < MaxDocs
    /\ \E a \in Collections, timestamp \in DocTimestamps, bot \in BOOLEAN :
          store' = [store EXCEPT ![a] =
                       Append(@, [proxyWallet |-> ToLowerCase(a),
                                  timestamp |-> timestamp,
                                  transactionHash |-> "tx1", size |-> 1,
                                  bot |-> bot])]
    /\ pollOut' = <<>>
    /\ UNCHANGED <<lastCheckedTimestamp, isRunning, pollingInterval, poll,
                   emitCount, intervals, notPoll>>

InitPoll ==
    /\ lastCheckedTimestamp = InitialWatermark
    /\ isRunning = FALSE
    /\ pollingInterval = "null"
    /\ poll = [p \in Polls |-> IdlePoll]
    /\ emitCount = [id \in DocIds |-> 0]
    /\ pollOut = <<>>
    /\ intervals = 0
    /\ clients = 0
    /\ recent = IdleRecent

\* most SSE clients connected at once in the model
MaxSseClients == 2

\* GET /stream: headers, start(), clients.add(res), the handlers
StreamConnect ==
    /\ clients < MaxSseClients
    /\ start
    /\ clients' = clients + 1
    /\ UNCHANGED <<store, handler, received, now, msgOut, storeOut, inbound,
                   recent, batchVars, apiVars, cacheVars, closeVars, monVars,
                   redeemVars>>

\* req.on('close'): clients.delete(res); stop() when the set is empty
StreamClose ==
    /\ clients > 0
    /\ clients' = clients - 1
    /\ IF clients' = 0 THEN stop
       ELSE /\ pollOut' = <<>>
            /\ UNCHANGED <<isRunning, pollingInterval, intervals, poll,
                           lastCheckedTimestamp, emitCount>>
    /\ UNCHANGED <<store, handler, received, now, msgOut, storeOut, inbound,
                   recent, batchVars, apiVars, cacheVars, closeVars, monVars,
                   redeemVars>>

NextStream ==
    \/ StreamConnect
    \/ StreamClose
    \/ PollIntervalFires
    \/ \E p \in Polls : PollCollectionsListed(p)
    \/ \E p \in Polls : PollFound(p)
    \/ \E p \in Polls : PollThrows(p)
    \/ ActivityStored

(***************************************************************************)
(* GET /api/trades and getRecentTrades                                     *)
(***************************************************************************)

notTrades == <<clients, intervals, batchVars, apiVars, cacheVars, closeVars, monVars,
               storeVars, redeemVars, pollVars>>

\* parseInt(req.query.limit) || 50
DefaultLimit == 50

\* Math.min(..., 100)
LimitCap == 100

\* req.query.limit: absent, not a number, or the integer parseInt reads
QueryT ==
    {[kind |-> "absent", value |-> 0], [kind |-> "NaN", value |-> 0]}
        \cup [kind : {"int"}, value : {-1, 0, 1, 2, 150}]

\* Math.min(parseInt(req.query.limit as string) || 50, 100): NaN and 0 are falsy
RouteLimit(query) ==
    Min(IF query.kind = "int" /\ query.value # 0 THEN query.value ELSE DefaultLimit,
        LimitCap)

\* trades.slice(0, limit): a negative limit counts from the end
Slice(trades, limit) ==
    IF limit >= 0 THEN SubSeq(trades, 1, Min(Len(trades), limit))
    ELSE SubSeq(trades, 1, Max(Len(trades) + limit, 0))

\* find({ bot: true }).sort({ timestamp: -1 }).limit(limit).toArray(); the
\* driver takes a negative limit by its absolute value
FindRecent(userAddress, collection, limit) ==
    LET sorted == SortDesc(FindFrom(userAddress, collection, -1, 1))
        n == IF limit < 0 THEN 0 - limit ELSE limit
    IN SubSeq(sorted, 1, Min(Len(sorted), n))

\* res.json({ trades, count, timestamp })
Respond(trades, failed) ==
    recent' = [recent EXCEPT !.pc = "done", !.response = trades,
                             !.failed = failed, !.trades = <<>>]

\* the head of the loop over ENV.USER_ADDRESSES, or the sort and the slice
ToRecentAddress(i, gathered) ==
    IF i > Len(USER_ADDRESSES)
    THEN Respond(Slice(SortDesc(gathered), recent.limit), FALSE)
    ELSE recent' = [recent EXCEPT !.pc = "listCollections", !.i = i,
                                  !.trades = gathered]

\* the request arrives: the limit, getRecentTrades up to its first await
TradesRequest ==
    /\ recent.pc = "idle"
    /\ \E query \in QueryT, hasDb \in BOOLEAN :
          IF hasDb
          THEN recent' = [IdleRecent EXCEPT !.pc = "listCollections", !.i = 1,
                                            !.query = query,
                                            !.limit = RouteLimit(query)]
          ELSE recent' = [IdleRecent EXCEPT !.pc = "done", !.query = query,
                                            !.limit = RouteLimit(query),
                                            !.failed = TRUE]
    /\ UNCHANGED notTrades

\* listCollections resolved: the collection is skipped, or find is issued
TradesCollectionsListed ==
    /\ recent.pc = "listCollections"
    /\ IF store[USER_ADDRESSES[recent.i]] = <<>>
       THEN ToRecentAddress(recent.i + 1, recent.trades)
       ELSE recent' = [recent EXCEPT !.pc = "find"]
    /\ UNCHANGED notTrades

\* find resolved: its documents are pushed, the loop goes on
TradesFound ==
    /\ recent.pc = "find"
    /\ LET userAddress == USER_ADDRESSES[recent.i]
           recentTrades == FindRecent(userAddress, store[userAddress], recent.limit)
       IN ToRecentAddress(recent.i + 1, recent.trades \o recentTrades)
    /\ UNCHANGED notTrades

\* listCollections or find rejected: the catch returns []
TradesThrows ==
    /\ recent.pc \in {"listCollections", "find"}
    /\ Respond(<<>>, TRUE)
    /\ UNCHANGED notTrades

\* res.json has sent the answer
TradesResponded ==
    /\ recent.pc = "done"
    /\ recent' = IdleRecent
    /\ UNCHANGED notTrades

\* a document appears in a collection while no request is being served
TradesStored ==
    /\ recent.pc = "idle"
    /\ ActivityStored

NextTrades ==
    \/ TradesRequest
    \/ TradesCollectionsListed
    \/ TradesFound
    \/ TradesThrows
    \/ TradesResponded
    \/ TradesStored

NextPoll ==
    \/ EmitterStart
    \/ EmitterStop
    \/ PollIntervalFires
    \/ \E p \in Polls : PollCollectionsListed(p)
    \/ \E p \in Polls : PollFound(p)
    \/ \E p \in Polls : PollThrows(p)
    \/ ActivityStored

(***************************************************************************)
(* SimpleCache.  A key is the sequence of the segments of its string.      *)
(***************************************************************************)

\* latest Date.now() in the model
MaxCacheNow == 2

\* cache.get calls that can be in progress at once
Getters == {"g1", "g2"}

\* CACHE_KEYS: order_book_<asset>, my_positions
CacheKeyT == {<<"order_book_", "a1">>, <<"my_positions">>}

\* the prefixes invalidatePrefix is called with
CachePrefixT == {<<>>, <<"order_book_">>, <<"my_positions">>}

\* ttlMs
CacheTtlT == {0, 2}

\* what a fetcher resolves with
CacheDataT == {"d1", "d2"}

\* this.cache.get(key) === undefined
NoEntry == [present |-> FALSE, data |-> "none", expires |-> 0]

\* { data, expires }
CacheEntry(data, expires) == [present |-> TRUE, data |-> data, expires |-> expires]

IdleGetter ==
    [pc |-> "idle", key |-> <<"my_positions">>, ttlMs |-> 0, data |-> "none",
     fetcherCalls |-> 0, invalidated |-> FALSE]

\* key.startsWith(prefix)
StartsWith(key, prefix) ==
    /\ Len(prefix) <= Len(key)
    /\ SubSeq(key, 1, Len(prefix)) = prefix

\* a faulty freshness test that takes an entry expiring now as live
IsFreshInclusive(cached, clock) == cached.present /\ cached.expires >= clock

\* if (cached && cached.expires > Date.now())
IsFresh(cached, clock) == cached.present /\ cached.expires > clock

\* cache.get(key, ttlMs, fetcher) up to its return or the await of the fetcher
CacheGet(g) ==
    /\ getter[g].pc # "fetcher"
    /\ \E key \in CacheKeyT, ttlMs \in CacheTtlT :
          LET cached == cache[key] IN
          IF IsFresh(cached, cacheNow)
          THEN getter' = [getter EXCEPT ![g] =
                             [pc |-> "returned", key |-> key, ttlMs |-> ttlMs,
                              data |-> cached.data, fetcherCalls |-> 0,
                              invalidated |-> FALSE]]
          ELSE getter' = [getter EXCEPT ![g] =
                             [pc |-> "fetcher", key |-> key, ttlMs |-> ttlMs,
                              data |-> "none", fetcherCalls |-> 1,
                              invalidated |-> FALSE]]
    /\ UNCHANGED <<cache, cacheNow, notCache>>

\* the fetcher resolved: this.cache.set(key, { data, expires }); return data
CacheFetcherResolved(g) ==
    /\ getter[g].pc = "fetcher"
    /\ \E data \in CacheDataT :
          /\ cache' = [cache EXCEPT ![getter[g].key] =
                          CacheEntry(data, cacheNow + getter[g].ttlMs)]
          /\ getter' = [getter EXCEPT ![g].pc = "returned", ![g].data = data,
                                      ![g].invalidated = FALSE]
    /\ UNCHANGED <<cacheNow, notCache>>

\* the fetcher rejected: get rejects, nothing is stored
CacheFetcherRejected(g) ==
    /\ getter[g].pc = "fetcher"
    /\ getter' = [getter EXCEPT ![g].pc = "rejected", ![g].invalidated = FALSE]
    /\ UNCHANGED <<cache, cacheNow, notCache>>

\* history: the fetches in flight for a key among `removed` are marked
MarkInFlight(removed) ==
    getter' = [g \in Getters |->
                 IF getter[g].pc = "fetcher" /\ getter[g].key \in removed
                 THEN [getter[g] EXCEPT !.invalidated = TRUE]
                 ELSE getter[g]]

\* a faulty invalidate that empties the whole cache
CacheInvalidateAll(key) == cache' = [k \in CacheKeyT |-> NoEntry]

\* this.cache.delete(key)
CacheInvalidateOf(key) == cache' = [cache EXCEPT ![key] = NoEntry]

\* for (const key of this.cache.keys()) if (key.startsWith(prefix)) delete
CacheInvalidatePrefixOf(prefix) ==
    cache' = [key \in CacheKeyT |->
                 IF StartsWith(key, prefix) THEN NoEntry ELSE cache[key]]

\* invalidate(key)
CacheInvalidate ==
    /\ \E key \in CacheKeyT :
          /\ CacheInvalidateOf(key)
          /\ MarkInFlight({key})
    /\ UNCHANGED <<cacheNow, notCache>>

\* invalidatePrefix(prefix)
CacheInvalidatePrefix ==
    /\ \E prefix \in CachePrefixT :
          /\ CacheInvalidatePrefixOf(prefix)
          /\ MarkInFlight({key \in CacheKeyT : StartsWith(key, prefix)})
    /\ UNCHANGED <<cacheNow, notCache>>

\* clear()
CacheClear ==
    /\ cache' = [key \in CacheKeyT |-> NoEntry]
    /\ MarkInFlight(CacheKeyT)
    /\ UNCHANGED <<cacheNow, notCache>>

\* time passes
CacheTick ==
    /\ cacheNow < MaxCacheNow
    /\ cacheNow' = cacheNow + 1
    /\ UNCHANGED <<cache, getter, notCache>>

InitCache ==
    /\ cache = [key \in CacheKeyT |-> NoEntry]
    /\ getter = [g \in Getters |-> IdleGetter]
    /\ cacheNow = 0

NextCache ==
    \/ \E g \in Getters : CacheGet(g)
    \/ \E g \in Getters : CacheFetcherResolved(g)
    \/ \E g \in Getters : CacheFetcherRejected(g)
    \/ CacheInvalidate
    \/ CacheInvalidatePrefix
    \/ CacheClear
    \/ CacheTick

(***************************************************************************)
(* POST /close-all and GET /close-all/stream.  closePosition is taken by   *)
(* what it returns; it rejects when its own fetchPositions or getClobClient *)
(* rejects.  The log holds what the request wrote to its response, and one  *)
(* "call" entry where closePosition is called.                              *)
(***************************************************************************)

\* most positions the data API returns to a close-all request
MaxClosePositions == 3

\* largest proceeds of one liquidation
MaxProceeds == 2

\* SellResult, as far as the routes read it
CloseResultT ==
    {[success |-> FALSE, totalValue |-> 0]}
        \cup [success : {TRUE}, totalValue : 1..MaxProceeds]

IdleRequest ==
    [mode |-> "plain", pc |-> "idle", total |-> 0, i |-> 0, closedCount |-> 0,
     failedCount |-> 0, totalValue |-> 0, results |-> <<>>, log |-> <<>>]

Written(c, event, index, success, value) ==
    [c EXCEPT !.log = Append(@, [event |-> event, index |-> index,
                                 success |-> success, value |-> value,
                                 closedCount |-> c.closedCount,
                                 failedCount |-> c.failedCount,
                                 totalValue |-> c.totalValue])]

\* sendEvent of the stream; the plain route writes nothing before its answer
sendEvent(c, event, index, success, value) ==
    IF c.mode = "stream" THEN Written(c, event, index, success, value) ELSE c

\* success: closedCount > 0 || positions.length === 0
BatchSuccess(c) == c.closedCount > 0 \/ c.total = 0

\* res.json of the summary, or the 'complete' event and res.end()
Summary(c) ==
    [Written(c, IF c.mode = "stream" THEN "complete" ELSE "json", c.total,
             BatchSuccess(c), c.totalValue) EXCEPT !.pc = "done"]

\* the catch: status 500, or the 'error' event and res.end()
Failed(c) ==
    [Written(c, IF c.mode = "stream" THEN "error" ELSE "status500", c.i,
             FALSE, 0) EXCEPT !.pc = "done"]

\* the head of one iteration: 'closing', then closePosition(asset, 100)
Iteration(c, i) ==
    LET closing == sendEvent([c EXCEPT !.i = i], "closing", i, FALSE, 0) IN
    [Written(closing, "call", i, FALSE, 0) EXCEPT !.pc = "closePosition"]

\* the next iteration, or the end of the loop
Advance(c) ==
    IF c.i + 1 < c.total THEN Iteration(c, c.i + 1) ELSE Summary(c)

\* a faulty count that leaves failures out
CountedDroppingFailures(c, res) ==
    IF res.success
    THEN [c EXCEPT !.closedCount = @ + 1, !.totalValue = @ + res.totalValue,
                   !.results = Append(@, res)]
    ELSE [c EXCEPT !.results = Append(@, res)]

\* closedCount++, totalValue += result.totalValue, or failedCount++
Counted(c, res) ==
    IF res.success
    THEN [c EXCEPT !.closedCount = @ + 1, !.totalValue = @ + res.totalValue,
                   !.results = Append(@, res)]
    ELSE [c EXCEPT !.failedCount = @ + 1, !.results = Append(@, res)]

\* the pause after a position: plain when there are several positions,
\* stream unless the position is the last
Delayed(c) ==
    IF c.mode = "stream" THEN c.i < c.total - 1 ELSE c.total > 1

\* the request arrives: headers, then the await of fetchPositions
CloseAllRequest(mode) ==
    /\ closeAll.pc = "idle"
    /\ closeAll' = [IdleRequest EXCEPT !.mode = mode, !.pc = "fetchPositions"]
    /\ UNCHANGED notBatch

\* fetchPositions resolved with n positions
CloseAllPositionsFetched(n) ==
    /\ closeAll.pc = "fetchPositions"
    /\ LET c == [closeAll EXCEPT !.total = n] IN
       closeAll' = IF n = 0 THEN Summary(c)
                   ELSE Iteration(sendEvent(c, "init", n, FALSE, 0), 0)
    /\ UNCHANGED notBatch

\* closePosition resolved with res
CloseAllPositionClosed(res) ==
    /\ closeAll.pc = "closePosition"
    /\ LET c == Counted(closeAll, res)
           closed == sendEvent(c, "closed", c.i, res.success, res.totalValue)
       IN  closeAll' = IF Delayed(closed) THEN [closed EXCEPT !.pc = "delay"]
                       ELSE Advance(closed)
    /\ UNCHANGED notBatch

\* the pause between two positions is over
CloseAllDelayElapsed ==
    /\ closeAll.pc = "delay"
    /\ closeAll' = Advance(closeAll)
    /\ UNCHANGED notBatch

\* fetchPositions or closePosition rejected
CloseAllThrows ==
    /\ closeAll.pc \in {"fetchPositions", "closePosition"}
    /\ closeAll' = Failed(closeAll)
    /\ UNCHANGED notBatch

InitBatch == closeAll = IdleRequest

NextBatch ==
    \/ \E mode \in {"plain", "stream"} : CloseAllRequest(mode)
    \/ \E n \in 0..MaxClosePositions : CloseAllPositionsFetched(n)
    \/ \E res \in CloseResultT : CloseAllPositionClosed(res)
    \/ CloseAllDelayElapsed
    \/ CloseAllThrows

Init ==
    /\ InitClose /\ InitMonitor /\ InitStore /\ InitRedeem /\ InitPoll /\ InitCache
    /\ InitApi /\ InitBatch

SpecClose == Init /\ [][NextClose]_vars

\* every await of a call settles
SpecCloseFair == Init /\ [][NextCloseOneBid]_vars /\ WF_vars(NextCloseOneBid)

SpecCloseConcurrent == Init /\ [][NextCloseConcurrent]_vars

SpecCloseHalf == Init /\ [][NextCloseHalf]_vars

SpecMonitor == Init /\ [][NextMonitor]_vars

SpecStore == Init /\ [][NextStore]_vars

\* as Init, with any message of the feed singled out
InitMessage ==
    /\ InitClose /\ InitMonitor /\ InitRedeem /\ InitPoll /\ InitCache /\ InitApi
    /\ InitBatch
    /\ InitHandlers
    /\ inbound \in MessageT

SpecMessage == InitMessage /\ [][NextMessage]_vars

\* as Init, with one of the entry messages singled out
InitEntry ==
    /\ InitClose /\ InitMonitor /\ InitRedeem /\ InitPoll /\ InitCache /\ InitApi
    /\ InitBatch
    /\ InitHandlers
    /\ inbound \in EntryMessages

SpecEntry == InitEntry /\ [][NextEntry]_vars

SpecRedeem == Init /\ [][NextRedeem]_vars

\* as Init, with any answer of the data API fixed
InitRedeemable ==
    /\ InitClose /\ InitMonitor /\ InitStore /\ InitRedeem /\ InitPoll /\ InitCache
    /\ InitBatch
    /\ summary = NoSummary
    /\ redeemTx = IdleTx
    /\ \E n \in 0..MaxApiPositions : apiData \in [1..n -> RedeemPositionT]

SpecRedeemable == InitRedeemable /\ [][NextRedeemable]_vars

SpecRedeemTx == Init /\ [][NextRedeemTx]_vars

SpecBatch == Init /\ [][NextBatch]_vars

SpecPoll == Init /\ [][NextPoll]_vars

SpecStream == Init /\ [][NextStream]_vars

SpecTrades == Init /\ [][NextTrades]_vars

SpecCache == Init /\ [][NextCache]_vars

\* the whole program: the components run side by side
Next ==
    \/ NextClose
    \/ NextCloseConcurrent
    \/ NextCloseHalf
    \/ NextCloseOneBid
    \/ NextMonitor
    \/ NextStore
    \/ NextMessage
    \/ NextEntry
    \/ NextRedeem
    \/ NextRedeemable
    \/ NextRedeemTx
    \/ NextBatch
    \/ NextStream
    \/ NextTrades
    \/ NextPoll
    \/ NextCache

Spec == Init /\ [][Next]_vars

(***************************************************************************)
(* Properties of closePosition                                             *)
(***************************************************************************)

\* the call is inside the sell loop: at an await of an iteration or in the backoff
InLoop(r) == job[r].pc \in {"getOrderBook", "postOrder", "backoff"}

\* the call has returned a result computed after the sell size
ReturnedFromLoop(r) == job[r].pc = "returned" /\ job[r].sellSize >= MinSellSize

C2_RetryCounter ==
    \A r \in Requests :
        /\ job[r].retry = fails[r]
        /\ fails[r] <= RETRY_LIMIT
        /\ job[r].pc \in {"getOrderBook", "postOrder"} => job[r].retry < RETRY_LIMIT
        /\ fails[r] = RETRY_LIMIT => job[r].pc = "returned"
        /\ job[r].totalSold = 0 => submitted[r] <= RETRY_LIMIT

\* a call has returned after a fill followed by RETRY_LIMIT failures
C2_Witness ==
    \E r \in Requests :
        /\ job[r].pc = "returned"
        /\ fails[r] = RETRY_LIMIT
        /\ result[r].tokensSold > 0
        /\ submitted[r] > RETRY_LIMIT

\* C8: at no time are two order submissions in flight at once, also when
\* several close requests are served at the same time.
C8_OneSubmissionInFlight ==
    Cardinality({r \in Requests : job[r].pc = "postOrder"}) <= 1

(***************************************************************************)
(* Properties of the monitor's fallback                                    *)
(***************************************************************************)

\* number of events of a kind in a sequence of events
RECURSIVE CountEv(_, _)
CountEv(out, ev) ==
    IF out = <<>> THEN 0
    ELSE (IF Head(out).ev = ev THEN 1 ELSE 0) + CountEv(Tail(out), ev)

\* C3: once reconnectAttempts has reached the maximum, the next reconnection
\* request enters fallback mode and emits 'fallback' exactly once; while the
\* monitor stays in fallback mode no step creates a client, arms a timer or
\* emits anything, and a reconnect timer that fires does not connect.
C3_FallbackUntilReset ==
    [][ /\ (useFallback /\ useFallback') =>
              /\ wsOut' = <<>>
              /\ liveClients' <= liveClients
              /\ timers' <= timers
              /\ client' \in {client, "null"}
        /\ (~useFallback /\ useFallback') =>
              /\ reconnectAttempts >= WS_RECONNECT_ATTEMPTS
              /\ CountEv(wsOut', "fallback") = 1
              /\ CountEv(wsOut', "timer") = 0
        /\ (useFallback' = useFallback \/ ~useFallback') =>
              CountEv(wsOut', "fallback") = 0
        /\ (~useFallback /\ reconnectAttempts >= WS_RECONNECT_ATTEMPTS) =>
              /\ CountEv(wsOut', "timer") = 0
              /\ HandleStatusChange("DISCONNECTED") => useFallback'
      ]_vars

\* the monitor entered fallback mode at the maximum while a reconnect timer
\* armed earlier is still pending
C3_Witness ==
    /\ useFallback
    /\ reconnectAttempts = WS_RECONNECT_ATTEMPTS
    /\ timers > 0

(***************************************************************************)
(* Properties of the observation store                                     *)
(***************************************************************************)

\* the handler awaits the lookup of a hash its collection already holds
LooksUpStoredHash(h) ==
    /\ handler[h].pc = "findOne"
    /\ FindOne(store[UserModel(handler[h].userAddress)],
               handler[h].payload.transaction_hash)

\* records of a collection with the hash
RecordsWith(collection, hash) ==
    {k \in 1..Len(collection) : collection[k].transactionHash = hash}

\* C4: when storeTrade handles a payload whose transaction hash is already in
\* the address's collection, it inserts nothing and leaves the records as
\* they are: the handler returns without reaching the save.
C4_StoredOnce ==
    [][ \A h \in Handlers :
            (LooksUpStoredHash(h) /\ handler'[h] # handler[h]) =>
                /\ store' = store
                /\ handler'[h].pc = "idle"
      ]_vars

\* the same trade was handled twice in sequence: the second storeTrade found
\* the record, and the collection holds it once
C4_Witness ==
    /\ storeOut = "exists"
    /\ received = 2
    /\ \A h \in Handlers : handler[h].pc = "idle"
    /\ Len(msgOut) = 1
    /\ Cardinality(RecordsWith(store[UserModel(msgOut[1].userAddress)],
                               msgOut[1].transactionHash)) = 1

\* C5: the observation store never holds two records with the same
\* transaction hash, also when two messages with the same hash are handled
\* concurrently.
C5_UniqueHash ==
    \A a \in Collections : \A hash \in Hashes :
        Cardinality(RecordsWith(store[a], hash)) <= 1

(***************************************************************************)
(* Properties of redeemAllResolved                                         *)
(***************************************************************************)

\* the condition ids of a sequence of positions
ConditionIdsOf(positions) ==
    {positions[k].conditionId : k \in 1..Len(positions)}

\* the first position of a sequence with the condition id
FirstWith(positions, c) ==
    positions[CHOOSE k \in 1..Len(positions) :
                 /\ positions[k].conditionId = c
                 /\ \A m \in 1..(k - 1) : positions[m].conditionId # c]

\* the call went through its loop and returned
RedeemedAll == rpc = "returned" /\ redeemablePositions # <<>>

RECURSIVE CountFailed(_)
CountFailed(os) ==
    IF os = <<>> THEN 0
    ELSE (IF Head(os) # "confirmed" THEN 1 ELSE 0) + CountFailed(Tail(os))

\* C7: a group whose redemption does not succeed (reverted receipt, thrown
\* error, missing fee estimate) is recorded as a failed entry with its error
\* text, and every remaining group is still attempted: each settled attempt
\* has its entry and the call returns only after all groups were attempted.
C7_FailureIsRecorded ==
    /\ Len(redeemResult.details) = Len(outcomes)
    /\ redeemResult.failedCount = CountFailed(outcomes)
    /\ \A k \in 1..Len(outcomes) :
          outcomes[k] # "confirmed" =>
              /\ redeemResult.details[k].success = FALSE
              /\ redeemResult.details[k].conditionId = groups[k].conditionId
              /\ redeemResult.details[k].error # "none"
              /\ outcomes[k] = "reverted" =>
                    redeemResult.details[k].error = "Transaction reverted"
              /\ outcomes[k] = "nofee" =>
                    redeemResult.details[k].error = "Could not determine gas price"
    /\ RedeemedAll => Len(outcomes) = Len(groups)

\* the first of two groups failed with a thrown error, the second was redeemed
C7_Witness ==
    /\ RedeemedAll
    /\ outcomes = <<"thrown", "confirmed">>
    /\ redeemResult.failedCount = 1
    /\ redeemResult.redeemedCount = 1

(***************************************************************************)
(* Properties of the polling emitter                                       *)
(***************************************************************************)

\* C9: the watermark lastCheckedTimestamp never decreases, over polls that
\* find nothing, that fail or that overlap.
C9_WatermarkMonotonic ==
    [][lastCheckedTimestamp' >= lastCheckedTimestamp]_vars

\* the watermark has advanced past a trade that an overlapping poll still holds
C9_Witness ==
    \E p \in Polls :
        /\ poll[p].pc # "idle"
        /\ poll[p].trades # <<>>
        /\ \A k \in 1..Len(poll[p].trades) :
              poll[p].trades[k].timestamp < lastCheckedTimestamp

\* C10: no observation is reported twice: once a poll has emitted a trade and
\* advanced the watermark, no later and no overlapping poll emits a trade
\* with a timestamp at or below the watermark.
C10_ReportedOnce ==
    /\ [](\A id \in DocIds : emitCount[id] <= 1)
    /\ [][\A k \in 1..Len(pollOut') :
              pollOut'[k].timestamp > lastCheckedTimestamp]_vars

\* a trade has been emitted while another poll that gathered it is in progress
C10_Witness ==
    \E p \in Polls : \E k \in 1..Len(poll[p].trades) :
        /\ poll[p].pc # "idle"
        /\ emitCount[poll[p].trades[k].id] = 1

\* the bot-executed documents of the store newer than the initial watermark
BotDocIds ==
    {id \in DocIds :
        /\ id[2] <= Len(store[id[1]])
        /\ store[id[1]][id[2]].bot = TRUE
        /\ store[id[1]][id[2]].timestamp > InitialWatermark}

\* C11: no observation is missed between poll cycles.  A document at or below
\* the watermark is never emitted afterwards (the emission requires a
\* timestamp above the watermark, which never decreases), so while the
\* emitter runs every bot-executed document the watermark has passed must
\* already have been emitted.
C11_NoneMissed ==
    isRunning =>
        \A id \in BotDocIds :
            store[id[1]][id[2]].timestamp <= lastCheckedTimestamp =>
                emitCount[id] >= 1

(***************************************************************************)
(* Properties of the cache                                                 *)
(***************************************************************************)

\* C12: cache.get returns the stored value without calling the fetcher when
\* the key has an entry whose expiry is later than now; otherwise it calls
\* the fetcher exactly once and, when the fetcher resolves, stores the result
\* with expiry now + ttl and returns that result.
C12_GetOrFetch ==
    [][ \A g \in Getters :
          /\ (getter[g].pc # "fetcher" /\ getter'[g] # getter[g]) =>
                LET cached == cache[getter'[g].key] IN
                IF cached.present /\ cached.expires > cacheNow
                THEN /\ getter'[g].pc = "returned"
                     /\ getter'[g].data = cached.data
                     /\ getter'[g].fetcherCalls = 0
                     /\ cache' = cache
                ELSE /\ getter'[g].pc = "fetcher"
                     /\ getter'[g].fetcherCalls = 1
                     /\ cache' = cache
          /\ (getter[g].pc = "fetcher" /\ getter'[g].pc = "returned") =>
                /\ getter'[g].fetcherCalls = 1
                /\ cache'[getter[g].key] =
                      CacheEntry(getter'[g].data, cacheNow + getter[g].ttlMs)
                /\ \A key \in CacheKeyT \ {getter[g].key} : cache'[key] = cache[key]
      ]_vars

\* one call fetched and stored a value, a later call for the key returned it
\* without a fetcher call
C12_Witness ==
    /\ getter["g1"].pc = "returned"
    /\ getter["g1"].fetcherCalls = 1
    /\ getter["g2"].pc = "returned"
    /\ getter["g2"].fetcherCalls = 0
    /\ getter["g2"].key = getter["g1"].key
    /\ getter["g2"].data = getter["g1"].data
    /\ cacheNow > 0

(***************************************************************************)
(* redeemAllResolved: the overall verdict                                  *)
(***************************************************************************)

\* every attempted group failed, and there was one
AllAttemptsFailed ==
    /\ Len(outcomes) > 0
    /\ \A k \in 1..Len(outcomes) : outcomes[k] # "confirmed"

\* the call ended in its catch block
RedeemThrew == rpc = "returned" /\ redeemResult.error = "error.message"

\* C13 as stated: redeemAllResolved reports success = true if a group was
\* redeemed or if no group was attempted or failed, and success = false only
\* when every attempted group failed.
C13_SuccessUnlessAllFailed ==
    rpc = "returned" => (redeemResult.success <=> ~AllAttemptsFailed)

\* C13 amended: a call that ends in its catch block (the positions could not
\* be loaded or the provider, wallet or contract could not be built) reports
\* success = false with the error text and has attempted no group; every
\* other call reports success = true unless every attempted group failed.
C13_OverallSuccess ==
    /\ RedeemThrew => (~redeemResult.success /\ outcomes = <<>>)
    /\ (rpc = "returned" /\ ~RedeemThrew) =>
          (redeemResult.success <=> ~AllAttemptsFailed)

\* the first group's transaction reverted, the second group's succeeded: the
\* call reports success
C13_Witness ==
    /\ rpc = "returned"
    /\ outcomes = <<"reverted", "confirmed">>
    /\ redeemResult.success
    /\ redeemResult.redeemedCount = 1
    /\ redeemResult.failedCount = 1

(***************************************************************************)
(* closePosition: the results it returns                                   *)
(***************************************************************************)

\* C14: when the order book fetched in an iteration has no bids, the call
\* returns in that step without submitting an order, with success =
\* (tokensSold > 0), the tokens sold, the tokens remaining and the value as
\* accumulated so far, and the no-bids error; on the first lookup of a call
\* that is success = false, nothing sold and the requested size remaining.
C14_NoBids ==
    [][ \A r \in Requests :
          (/\ job[r].pc = "getOrderBook"
           /\ result'[r] # result[r]
           /\ result'[r].error = "No bids available in order book") =>
             /\ job'[r].pc = "returned"
             /\ submitted'[r] = submitted[r]
             /\ result'[r].success = (job[r].totalSold > 0)
             /\ result'[r].tokensSold = job[r].totalSold
             /\ result'[r].tokensRemaining = job[r].remaining
             /\ result'[r].totalValue = job[r].totalValue
             /\ (submitted[r] = 0 /\ fails[r] = 0) =>
                   /\ ~result'[r].success
                   /\ result'[r].tokensSold = 0
                   /\ result'[r].tokensRemaining = job[r].sellSize
      ]_vars

\* a call has returned on an empty order book after selling a part
C14_Witness ==
    \E r \in Requests :
        /\ job[r].pc = "returned"
        /\ result[r].error = "No bids available in order book"
        /\ result[r].success
        /\ result[r].tokensSold > 0
        /\ result[r].tokensRemaining > DustThreshold

\* the call has returned from the statement after the loop
LoopEnded(r) ==
    /\ ReturnedFromLoop(r)
    /\ result[r].error # "No bids available in order book"

\* C15: every result returned has success = true exactly when tokensSold > 0;
\* a result returned after the loop ended carries an error exactly when
\* tokensRemaining > 0.01, so exhausting the retries after a partial fill
\* gives success = true together with the remaining-tokens error.
C15_SuccessIffSold ==
    \A r \in Requests :
        /\ job[r].pc = "returned" =>
              (result[r].success <=> result[r].tokensSold > 0)
        /\ LoopEnded(r) =>
              /\ result[r].error # "none" <=> result[r].tokensRemaining > DustThreshold
              /\ result[r].error \in {"none", "Could not sell all tokens"}
        /\ (LoopEnded(r) /\ job[r].retry = RETRY_LIMIT /\ result[r].tokensSold > 0) =>
              /\ result[r].success
              /\ result[r].error = "Could not sell all tokens"

\* the retries were exhausted after a partial fill
C15_Witness ==
    \E r \in Requests :
        /\ LoopEnded(r)
        /\ job[r].retry = RETRY_LIMIT
        /\ result[r].success
        /\ result[r].tokensSold > 0
        /\ result[r].error = "Could not sell all tokens"

\* the rejection every validation failure returns, up to its error and
\* tokensRemaining
IsRejection(res, rem) ==
    /\ ~res.success
    /\ res.tokensSold = 0
    /\ res.totalValue = 0
    /\ res.tokensRemaining = rem
    /\ res.error \notin {"none", "pending"}

\* C16: a percentage outside [0,100], an asset no position matches, or a sell
\* size below 0.01 (percentage 0 included) makes the call return, in the very
\* step that finds it and so before any balance refresh, order-book read or
\* order, success = false with nothing sold and no value; below the minimum
\* the tokens remaining are the whole position.  Any other call goes on.
C16_RejectsBeforeTrading ==
    [][ \A r \in Requests :
          LET j == job'[r] IN
          /\ (job[r].pc = "idle" /\ j.pc # "idle") =>
                IF j.percentage < 0 \/ j.percentage > 100
                THEN /\ j.pc = "returned"
                     /\ IsRejection(result'[r], 0)
                     /\ submitted'[r] = 0
                ELSE j.pc = "fetchPositions" /\ result'[r] = result[r]
          /\ (job[r].pc = "fetchPositions" /\ j.pc \notin {"fetchPositions", "thrown"}) =>
                IF j.position = 0
                THEN /\ j.pc = "returned"
                     /\ IsRejection(result'[r], 0)
                     /\ submitted'[r] = 0
                ELSE IF (j.position * j.percentage) \div 100 < MinSellSize
                THEN /\ j.pc = "returned"
                     /\ IsRejection(result'[r], j.position)
                     /\ submitted'[r] = 0
                ELSE /\ j.pc = "updateBalance"
                     /\ j.sellSize = (j.position * j.percentage) \div 100
                     /\ result'[r] = result[r]
          /\ j.pc \in {"updateBalance", "getOrderBook", "postOrder", "backoff"} =>
                /\ j.percentage \in 0..100
                /\ j.position > 0
                /\ j.sellSize >= MinSellSize
      ]_vars

\* a call with percentage 0 on an existing position has been rejected with the
\* whole position remaining
C16_Witness ==
    \E r \in Requests :
        /\ job[r].pc = "returned"
        /\ job[r].percentage = 0
        /\ job[r].position > 0
        /\ result[r].tokensRemaining = job[r].position
        /\ ~result[r].success
        /\ submitted[r] = 0

(***************************************************************************)
(* Properties of the monitor's reconnection backoff                        *)
(***************************************************************************)

\* the timers armed by the step that produced the events
TimersArmedIn(out) == {k \in 1..Len(out) : out[k].ev = "timer"}

\* C17: a step schedules at most one reconnection; the reconnection scheduled
\* when reconnectAttempts is i is armed with delay WS_RECONNECT_DELAY * 2^i
\* and raises reconnectAttempts to i + 1; reconnectAttempts changes in no
\* other way except back to 0, by a successful connect or a reset, so i is the
\* number of reconnections scheduled since the last of those.
C17_ExponentialBackoff ==
    [][ /\ Cardinality(TimersArmedIn(wsOut')) <= 1
        /\ \A k \in TimersArmedIn(wsOut') :
              /\ wsOut'[k].delay = WS_RECONNECT_DELAY * (2 ^ reconnectAttempts)
              /\ reconnectAttempts' = reconnectAttempts + 1
        /\ TimersArmedIn(wsOut') = {} =>
              \/ reconnectAttempts' = reconnectAttempts
              \/ reconnectAttempts' = 0 /\ (HandleConnect \/ ResetFallback)
        /\ (HandleConnect \/ ResetFallback) => reconnectAttempts' = 0
      ]_vars

\* the third reconnection in a row has just been scheduled, four base delays out
C17_Witness ==
    /\ reconnectAttempts = 3
    /\ \E k \in 1..Len(wsOut) : wsOut[k] = TimerArmed(4 * WS_RECONNECT_DELAY)

\* a reconnection request: scheduleReconnect() is reached from a DISCONNECTED
\* status change or from a connect() that threw
ReconnectionRequest ==
    \/ HandleStatusChange("DISCONNECTED")
    \/ Connect
    \/ ReconnectTimerFires

\* C18: reconnectAttempts never exceeds WS_RECONNECT_ATTEMPTS; fallback mode
\* is entered only by a reconnection request made while reconnectAttempts
\* equals the maximum; the counter gets there only one scheduled reconnection
\* at a time, and a successful connect or a reset puts it back to 0.
C18_FallbackOnlyAtMaximum ==
    [][ /\ reconnectAttempts <= WS_RECONNECT_ATTEMPTS
        /\ reconnectAttempts' <= WS_RECONNECT_ATTEMPTS
        /\ (~useFallback /\ useFallback') =>
              /\ reconnectAttempts = WS_RECONNECT_ATTEMPTS
              /\ reconnectAttempts' = reconnectAttempts
              /\ ReconnectionRequest
              /\ TimersArmedIn(wsOut') = {}
        /\ reconnectAttempts' > reconnectAttempts =>
              /\ reconnectAttempts' = reconnectAttempts + 1
              /\ ReconnectionRequest
              /\ ~useFallback'
        /\ reconnectAttempts' < reconnectAttempts =>
              /\ reconnectAttempts' = 0
              /\ HandleConnect \/ ResetFallback
      ]_vars

\* the monitor has just entered fallback mode
C18_Witness ==
    /\ useFallback
    /\ ~isConnected
    /\ reconnectAttempts = WS_RECONNECT_ATTEMPTS
    /\ CountEv(wsOut, "fallback") = 1

(***************************************************************************)
(* Properties of the monitor's handling of one inbound message             *)
(***************************************************************************)

\* the message is of topic 'activity' and type 'trades' and its user address,
\* in lower case, is one of the configured addresses in lower case
FromTrackedWallet(message) ==
    /\ message.topic = "activity"
    /\ message.type = "trades"
    /\ message.payload.address # "none"
    /\ \E a \in Collections :
          ToLowerCase(a) = ToLowerCase(message.payload.address)

\* the time of the trade a message reports: the clock when it carries none
TradeTime(message, clock) ==
    IF message.payload.timestamp.fmt = "absent" THEN clock
    ELSE message.payload.timestamp.sec

\* the step delivers the message to a handler
Delivers == received' = received + 1

\* the handlers that start to await the store in the step
Starting == {h \in Handlers : handler[h].pc = "idle" /\ handler'[h].pc # "idle"}

\* the handlers that stop awaiting the store in the step
Finishing == {h \in Handlers : handler[h].pc # "idle" /\ handler'[h].pc = "idle"}

\* C19: a delivery starts the persistence of the message only if it is of
\* topic 'activity' and type 'trades', its address in lower case is tracked
\* and its timestamp is not older than the clock at delivery less
\* TOO_OLD_TIMESTAMP hours; any other delivery starts nothing and leaves the
\* store as it is.  The store changes only by the save of a handler so
\* started, which appends one record of that message to the collection of
\* the message's address.
C19_InsertOnlyFreshTracked ==
    [][ /\ Delivers =>
              /\ store' = store
              /\ IF /\ FromTrackedWallet(inbound)
                    /\ TradeTime(inbound, now) >= now - TOO_OLD_TIMESTAMP
                 THEN /\ Cardinality(Starting) = 1
                      /\ \A h \in Starting :
                            /\ handler'[h].userAddress =
                                  ToLowerCase(inbound.payload.address)
                            /\ handler'[h].timestamp = TradeTime(inbound, now)
                            /\ handler'[h].payload = Used(inbound.payload)
                 ELSE handler' = handler
        /\ ~Delivers => Starting = {}
        /\ store' # store =>
              /\ FromTrackedWallet(inbound)
              /\ \E h \in Finishing : \E a \in Collections :
                    /\ handler[h].pc = "save"
                    /\ ToLowerCase(a) = ToLowerCase(inbound.payload.address)
                    /\ store' = [store EXCEPT ![a] =
                                   Append(@, [proxyWallet |-> ToLowerCase(a),
                                              timestamp |-> handler[h].timestamp,
                                              transactionHash |->
                                                  inbound.payload.transaction_hash,
                                              size |-> inbound.payload.size,
                                              bot |-> FALSE])]
      ]_vars

\* a trade whose address is written in upper case was stored, and the same
\* message delivered again later was found too old and left the store alone
C19_Witness ==
    /\ inbound.payload.address = "0xA"
    /\ Len(store["0xA"]) = 1
    /\ store["0xA"][1].proxyWallet = "0xa"
    /\ storeOut = "too old"
    /\ received = 2

\* the event the monitor emits for a message
EventFor(message) ==
    [userAddress |-> ToLowerCase(message.payload.address),
     transactionHash |-> message.payload.transaction_hash]

\* C20 as stated: the monitor emits a 'trade' event exactly for the trade
\* messages of tracked addresses, one per message, once the persistence step
\* of the message has finished, and none for any other message.
C20_OneEventPerTrade ==
    [][ /\ Delivers =>
              IF FromTrackedWallet(inbound)
              THEN \/ msgOut' = <<EventFor(inbound)>> /\ Starting = {}
                   \/ msgOut' = <<>> /\ Cardinality(Starting) = 1
              ELSE msgOut' = <<>> /\ Starting = {}
        /\ Finishing # {} => msgOut' = <<EventFor(inbound)>>
        /\ (~Delivers /\ Finishing = {}) => msgOut' = <<>>
      ]_vars

(***************************************************************************)
(* The monitor's entry points never throw                                  *)
(***************************************************************************)

\* the step schedules a reconnection or gives the fallback signal, not both
AbsorbsFailure ==
    \/ Cardinality(TimersArmedIn(wsOut')) = 1 /\ CountEv(wsOut', "fallback") = 0
    \/ TimersArmedIn(wsOut') = {} /\ CountEv(wsOut', "fallback") = 1

\* C21: no entry point of the monitor throws or rejects: a connect() whose
\* client could not be created or connected, a subscribe that fails and a
\* lookup or save that rejects are caught; outside fallback mode a connect()
\* that fails and a DISCONNECTED status end in one scheduled reconnection or
\* in the fallback signal, and in fallback mode the signal was given already.
C21_NeverSurfaces ==
    [][ /\ CountEv(wsOut', "rejected") = 0
        /\ \A h \in Handlers : handler'[h].pc \in {"idle", "findOne", "save"}
        /\ \A h \in Handlers :
              StoreThrows(h) => handler'[h].pc = "idle" /\ store' = store
        /\ (Connect \/ ReconnectTimerFires) =>
              IF useFallback
              THEN wsOut' = <<>> /\ useFallback'
              ELSE \/ wsOut' = <<ClientCreated>>
                   \/ AbsorbsFailure
        /\ HandleStatusChange("DISCONNECTED") =>
              IF useFallback
              THEN wsOut' = <<>> /\ useFallback'
              ELSE AbsorbsFailure
      ]_vars

\* client.connect() threw after the client was created: the catch scheduled a
\* reconnection, while a handler's lookup is pending
C21_Witness ==
    /\ Len(wsOut) = 2
    /\ wsOut[1] = ClientCreated
    /\ wsOut[2].ev = "timer"
    /\ handler["h1"].pc = "findOne"

(***************************************************************************)
(* Properties of the redeemable filter                                     *)
(***************************************************************************)

\* the flag is true, the price is at least 0.99 or at most 0.01, and the size
\* is greater than 0.0001
TreatedAsRedeemable(pos) ==
    /\ pos.redeemable
    /\ (pos.curPrice >= 99 \/ pos.curPrice <= 1)
    /\ pos.size > 1

\* C22: getRedeemablePositions returns, and redeemAllResolved works on,
\* exactly the positions of the data API's answer whose redeemable flag is
\* true, whose price is >= 0.99 or <= 0.01 and whose size is > 0.0001, in the
\* answer's order; total and totalValue are their number and summed value.
C22_RedeemableIff ==
    /\ summary.pc = "returned" =>
          /\ summary.redeemable = SelectSeq(apiData, TreatedAsRedeemable)
          /\ summary.total = Len(summary.redeemable)
          /\ summary.totalValue = SumValue(summary.redeemable)
    /\ (rpc \in {"redeemPosition", "delay", "returned"} /\ ~RedeemThrew) =>
          redeemablePositions = SelectSeq(apiData, TreatedAsRedeemable)

\* a position priced 0.01 with the flag set was taken by both functions
C22_Witness ==
    /\ Len(apiData) = 1
    /\ apiData[1].curPrice = RESOLVED_LOW
    /\ summary.pc = "returned"
    /\ summary.redeemable = apiData
    /\ rpc = "returned"
    /\ redeemablePositions = apiData

(***************************************************************************)
(* redeemAllResolved: order of the groups and the totals                   *)
(***************************************************************************)

\* the condition ids of a sequence of positions, each once, in the order of
\* their first appearance
RECURSIVE FirstAppearances(_, _)
FirstAppearances(positions, seen) ==
    IF positions = <<>> THEN seen
    ELSE FirstAppearances(
             Tail(positions),
             IF \E k \in 1..Len(seen) : seen[k] = Head(positions).conditionId
             THEN seen
             ELSE Append(seen, Head(positions).conditionId))

\* C23: the k-th redemption attempted is that of the k-th condition id in
\* order of first appearance among the redeemable positions; a redemption
\* is submitted only when the outcome of every earlier one has been recorded
\* in the result, so at most one is in flight.
C23_GroupsInOrder ==
    /\ \A k \in 1..Len(attempts) :
          attempts[k].conditionId = FirstAppearances(redeemablePositions, <<>>)[k]
    /\ Len(attempts) <= Len(redeemResult.details) + 1
    /\ Len(attempts) = Len(redeemResult.details) + 1 <=> rpc = "redeemPosition"
    /\ \A k \in 1..Len(redeemResult.details) :
          redeemResult.details[k].conditionId = attempts[k].conditionId

\* the second group is in flight after the first, whose id appeared first
\* and again after the second's, was recorded
C23_Witness ==
    /\ rpc = "redeemPosition"
    /\ Len(redeemablePositions) = 3
    /\ redeemablePositions[1].conditionId = "cB"
    /\ redeemablePositions[2].conditionId = "cA"
    /\ redeemablePositions[3].conditionId = "cB"
    /\ Len(attempts) = 2
    /\ attempts[2].conditionId = "cA"
    /\ Len(redeemResult.details) = 1

\* the outcome of the redemption of a condition id
OutcomeOf(c) ==
    outcomes[CHOOSE k \in 1..Len(outcomes) : attempts[k].conditionId = c]

\* the summed currentValue of the positions whose group was redeemed
RECURSIVE RedeemedValue(_)
RedeemedValue(positions) ==
    IF positions = <<>> THEN 0
    ELSE (IF OutcomeOf(Head(positions).conditionId) = "confirmed"
          THEN Head(positions).currentValue ELSE 0)
         + RedeemedValue(Tail(positions))

\* C24: when the loop has completed, redeemedCount + failedCount is the
\* number of groups and of details entries, and totalValue is the summed
\* currentValue of all positions of the groups that succeeded, none of a
\* failed group; condition ids A, A, B with A reverted and B confirmed give
\* redeemedCount = 1, failedCount = 1, success = true.
C24_CountsAndTotal ==
    RedeemedAll =>
        /\ redeemResult.redeemedCount + redeemResult.failedCount
              = Cardinality(ConditionIdsOf(redeemablePositions))
        /\ Len(redeemResult.details)
              = Cardinality(ConditionIdsOf(redeemablePositions))
        /\ Len(groups) = Len(redeemResult.details)
        /\ redeemResult.totalValue = RedeemedValue(redeemablePositions)
        /\ (/\ [k \in 1..Len(redeemablePositions) |->
                   redeemablePositions[k].conditionId] = <<"cA", "cA", "cB">>
            /\ outcomes = <<"reverted", "confirmed">>) =>
              /\ redeemResult.redeemedCount = 1
              /\ redeemResult.failedCount = 1
              /\ redeemResult.success

\* ids A, A, B: A reverted and B was redeemed; the total is B's value alone
C24_Witness ==
    /\ RedeemedAll
    /\ Len(redeemablePositions) = 3
    /\ redeemablePositions[1].conditionId = "cA"
    /\ redeemablePositions[2].conditionId = "cA"
    /\ redeemablePositions[3].conditionId = "cB"
    /\ outcomes = <<"reverted", "confirmed">>
    /\ redeemResult.totalValue = redeemablePositions[3].currentValue
    /\ redeemResult.success

(***************************************************************************)
(* Properties of redeemPosition's gas price                                *)
(***************************************************************************)

\* C25: the transaction redeemPosition submits carries the fee estimate
\* times 120 divided by 100, rounded down, the estimate being gasPrice or,
\* when that is null, maxFeePerGas; when both are null nothing is submitted
\* and the call returns a failure with the gas-price error.  At most one
\* transaction is submitted.
C25_GasPrice ==
    LET fee == redeemTx.feeData IN
    /\ Len(redeemTx.sent) <= 1
    /\ redeemTx.sent # <<>> =>
          /\ redeemTx.fetched
          /\ fee.gasPrice.known \/ fee.maxFeePerGas.known
          /\ fee.gasPrice.known =>
                /\ 100 * redeemTx.sent[1] <= 120 * fee.gasPrice.value
                /\ 120 * fee.gasPrice.value < 100 * (redeemTx.sent[1] + 1)
          /\ ~fee.gasPrice.known =>
                /\ 100 * redeemTx.sent[1] <= 120 * fee.maxFeePerGas.value
                /\ 120 * fee.maxFeePerGas.value < 100 * (redeemTx.sent[1] + 1)
    /\ (redeemTx.fetched /\ ~fee.gasPrice.known /\ ~fee.maxFeePerGas.known) =>
          /\ redeemTx.sent = <<>>
          /\ redeemTx.pc = "returned"
          /\ ~redeemTx.success
          /\ redeemTx.error = "Could not determine gas price"
    /\ (redeemTx.fetched /\ (fee.gasPrice.known \/ fee.maxFeePerGas.known)) =>
          redeemTx.sent # <<>>

\* gasPrice was null and maxFeePerGas 7: the transaction went out at 8 and
\* was confirmed
C25_Witness ==
    /\ redeemTx.pc = "returned"
    /\ redeemTx.success
    /\ ~redeemTx.feeData.gasPrice.known
    /\ redeemTx.feeData.maxFeePerGas = [known |-> TRUE, value |-> 7]
    /\ redeemTx.sent = <<8>>

(***************************************************************************)
(* Properties of close-all                                                 *)
(***************************************************************************)

IsEvent(e) == e.event # "call"

\* what the stream wrote, without the marks of the closePosition calls
Events == SelectSeq(closeAll.log, IsEvent)

IsSummary(e) == e.event \in {"complete", "json"}

RECURSIVE SumProceeds(_)
\* the proceeds of the results counted as closed
SumProceeds(results) ==
    IF results = <<>> THEN 0
    ELSE (IF Head(results).success THEN Head(results).totalValue ELSE 0)
            + SumProceeds(Tail(results))

\* C26: a finished close-all stream over a non-empty position list has
\* written 'init', then for each position in order 'closing' and 'closed'
\* with its index, then one 'complete' and nothing else; each closePosition
\* call comes right after the 'closing' of its position, so after the
\* 'closed' of the previous one.
C26_StreamSequence ==
    (closeAll.mode = "stream" /\ closeAll.pc = "done" /\ closeAll.total > 0) =>
        /\ Len(Events) = 2 * closeAll.total + 2
        /\ Events[1].event = "init"
        /\ \A k \in 0..(closeAll.total - 1) :
              /\ Events[2 * k + 2].event = "closing"
              /\ Events[2 * k + 2].index = k
              /\ Events[2 * k + 3].event = "closed"
              /\ Events[2 * k + 3].index = k
        /\ Events[Len(Events)].event = "complete"
        /\ \A j \in 1..Len(closeAll.log) :
              closeAll.log[j].event = "call" =>
                 /\ j > 1
                 /\ closeAll.log[j - 1].event = "closing"
                 /\ closeAll.log[j - 1].index = closeAll.log[j].index

\* C27: a finished close-all request, plain or stream, that fetched a
\* non-empty position list has a result for every position and has ended
\* with its summary, whatever happened to the single liquidations.
C27_BatchNeverAborted ==
    (closeAll.pc = "done" /\ closeAll.total > 0) =>
        /\ Len(closeAll.results) = closeAll.total
        /\ closeAll.closedCount + closeAll.failedCount = closeAll.total
        /\ IsSummary(closeAll.log[Len(closeAll.log)])

\* C28: in the summary of close-all closedCount + failedCount is the number
\* of positions fetched, closedCount the number of successful results,
\* totalValue the sum of their proceeds, and success is true exactly when
\* closedCount > 0 or no position was fetched; in every 'closed' event of
\* the stream closedCount + failedCount is the number of positions processed
\* so far.
C28_SummaryCounts ==
    \A j \in 1..Len(closeAll.log) :
        LET e == closeAll.log[j] IN
        /\ IsSummary(e) =>
              /\ e.closedCount + e.failedCount = closeAll.total
              /\ Len(closeAll.results) = closeAll.total
              /\ e.closedCount =
                    Cardinality({k \in 1..Len(closeAll.results) :
                                    closeAll.results[k].success})
              /\ e.totalValue = SumProceeds(closeAll.results)
              /\ e.success <=> (e.closedCount > 0 \/ closeAll.total = 0)
        /\ e.event = "closed" =>
              e.closedCount + e.failedCount = e.index + 1

\* a stream over three positions has completed with two closed for 3 in all
\* and one failed
C28_Witness ==
    /\ closeAll.mode = "stream"
    /\ closeAll.pc = "done"
    /\ closeAll.total = 3
    /\ closeAll.log[Len(closeAll.log)].event = "complete"
    /\ closeAll.log[Len(closeAll.log)].closedCount = 2
    /\ closeAll.log[Len(closeAll.log)].failedCount = 1
    /\ closeAll.log[Len(closeAll.log)].totalValue = 3
    /\ closeAll.log[Len(closeAll.log)].success

(***************************************************************************)
(* Properties of the orders and the proceeds of closePosition              *)
(***************************************************************************)

\* C29: the order handed to postOrder is priced at the highest bid price of
\* the book fetched in the same iteration, the bid taken being the first of
\* that price in book order, and its amount is the smaller of what remains
\* to be sold and that bid's size, so never more than what remains.
C29_BestBidOrder ==
    LET j == job["r1"] IN
    j.pc = "postOrder" =>
        \E k \in 1..Len(j.bids) :
            /\ \A i \in 1..Len(j.bids) : j.bids[i].price <= j.bids[k].price
            /\ \A i \in 1..(k - 1) : j.bids[i].price < j.bids[k].price
            /\ j.orderArgs.price = j.bids[k].price
            /\ j.orderArgs.amount =
                  (IF j.remaining <= j.bids[k].size THEN j.remaining
                   ELSE j.bids[k].size)
            /\ j.orderArgs.amount <= j.remaining

\* two bids at the same highest price: the order takes the size of the first
C29_Witness ==
    /\ job["r1"].pc = "postOrder"
    /\ job["r1"].bids = <<[price |-> 2, size |-> 1], [price |-> 2, size |-> 5]>>
    /\ job["r1"].remaining = 4
    /\ job["r1"].orderArgs = [amount |-> 1, price |-> 2]

\* C30: totalValue starts at 0 when the loop is entered, grows by fill amount
\* times fill price with every accepted order and with nothing else, and is
\* what closePosition returns; so it is the sum of amount * price over the
\* successful fills only.
C30_ProceedsSumFills ==
    [][ LET j == job["r1"]
            k == job'["r1"]
        IN  /\ CloseBalanceUpdated("r1") => k.totalValue = 0
            /\ CloseOrderFilled("r1") =>
                  /\ k.totalValue =
                        j.totalValue + j.orderArgs.amount * j.orderArgs.price
                  /\ k.totalSold = j.totalSold + j.orderArgs.amount
            /\ (j.pc \in {"getOrderBook", "postOrder", "backoff"}
                    /\ ~CloseOrderFilled("r1")) =>
                  /\ k.totalValue = j.totalValue
                  /\ k.totalSold = j.totalSold
            /\ (j.pc \in {"updateBalance", "getOrderBook", "postOrder", "backoff"}
                    /\ k.pc = "returned") =>
                  /\ result'["r1"].totalValue = k.totalValue
                  /\ result'["r1"].tokensSold = k.totalSold
      ]_vars

\* a position of 100 tokens closed by 50%: 30 tokens went at 0.60 and 20 at
\* 0.55; sold 50, nothing remains, proceeds 29.0, success
C30_Witness ==
    /\ job["r1"].pc = "returned"
    /\ job["r1"].position = 20000
    /\ job["r1"].percentage = 50
    /\ result["r1"] = SellResult(TRUE, 10000, 0, 580000, "none")

(***************************************************************************)
(* Properties of the monitor's public methods                              *)
(***************************************************************************)

\* C31: a call of resetFallback() leaves useFallback false and
\* reconnectAttempts 0 and changes nothing else: client, connected flag,
\* armed timers and live clients are unchanged, nothing is emitted and no
\* client is created; and only such a call takes the monitor out of fallback
\* mode.
C31_ResetFallbackFrame ==
    [][ /\ ResetFallback => (~useFallback' /\ reconnectAttempts' = 0)
        /\ (/\ lastCall' = "resetFallback"
            /\ lastCall # "resetFallback" \/ (useFallback /\ ~useFallback')) =>
              /\ ~useFallback'
              /\ reconnectAttempts' = 0
              /\ client' = client
              /\ isConnected' = isConnected
              /\ timers' = timers
              /\ liveClients' = liveClients
              /\ wsOut' = <<>>
        /\ (useFallback /\ ~useFallback') => ResetFallback
      ]_vars

\* resetFallback() was the last call, on a monitor that is connected, has a
\* client and a reconnect timer still armed
C31_Witness ==
    /\ lastCall = "resetFallback"
    /\ ~useFallback
    /\ reconnectAttempts = 0
    /\ isConnected
    /\ client = "set"
    /\ timers > 0

\* C36: from the return of disconnect() until the program calls connect()
\* again the monitor has no client and is not connected, no step creates a
\* client, and a second disconnect() changes nothing.
C36_StaysDisconnected ==
    [][ (lastCall = "disconnect" /\ lastCall' = "disconnect") =>
            /\ client' = "null"
            /\ ~isConnected'
            /\ CountEv(wsOut', "client") = 0
            /\ Disconnect =>
                  UNCHANGED <<client, isConnected, reconnectAttempts,
                              useFallback, timers, liveClients>>
      ]_vars

\* C37: at most one client created by the monitor and not torn down exists
\* at any time.
C37_OneLiveClient == liveClients <= 1

\* C38: the monitor is never in fallback mode and connected at once.
C38_FallbackNotConnected == ~(useFallback /\ isConnected)

(***************************************************************************)
(* Properties of the cache's invalidation                                  *)
(***************************************************************************)

\* the key begins with the prefix
HasPrefix(key, prefix) == \E n \in 0..Len(key) : SubSeq(key, 1, n) = prefix

C39_NoRepopulation ==
    [][ \A g \in Getters :
          (/\ getter[g].pc = "fetcher"
           /\ getter[g].invalidated
           /\ getter'[g].pc = "returned") =>
              cache'[getter[g].key] = cache[getter[g].key]
      ]_vars

(***************************************************************************)
(* closePosition: termination and monotonicity of the loop                 *)
(***************************************************************************)

\* C34: every iteration of closePosition's loop ends by returning, by
\* leaving less to sell, or with a larger retry counter, and every call that
\* has entered the loop returns.
C34_Terminates ==
    /\ [][ LET j == job["r1"]
               k == job'["r1"]
           IN  (/\ j.pc \in {"getOrderBook", "postOrder"}
                /\ k.pc # "postOrder"
                /\ k # j) =>
                   \/ k.pc = "returned"
                   \/ k.remaining < j.remaining
                   \/ k.retry > j.retry
         ]_vars
    /\ (InLoop("r1") ~> job["r1"].pc = "returned")

\* a call returned after two fills and two failed attempts in a row
C34_Witness ==
    /\ job["r1"].pc = "returned"
    /\ submitted["r1"] = 4
    /\ fails["r1"] = 2
    /\ job["r1"].totalSold > 0
    /\ job["r1"].remaining > 0

\* C35: over the steps of the loop tokensRemaining does not grow and is
\* never negative, tokensSold and totalValue do not shrink, and an attempt
\* that is rejected or throws changes none of the three: it adds one to the
\* retry counter.
C35_LoopMonotone ==
    [][ LET j == job["r1"]
            k == job'["r1"]
        IN  /\ (InLoop("r1") /\ k.pc \in {"getOrderBook", "postOrder", "backoff",
                                            "returned"}) =>
                  /\ k.remaining <= j.remaining
                  /\ k.remaining >= 0
                  /\ k.totalSold >= j.totalSold
                  /\ k.totalValue >= j.totalValue
            /\ (CloseOrderRejected("r1") \/ CloseAttemptThrows("r1")
                   \/ fails'["r1"] > fails["r1"]) =>
                  /\ k.remaining = j.remaining
                  /\ k.totalSold = j.totalSold
                  /\ k.totalValue = j.totalValue
                  /\ k.retry = j.retry + 1
      ]_vars

\* after a fill of 3 of 6 units an attempt failed: 3 sold, 3 remain, one retry
C35_Witness ==
    /\ job["r1"].pc = "backoff"
    /\ job["r1"].totalSold = 3
    /\ job["r1"].remaining = 3
    /\ job["r1"].retry = 1
    /\ fails["r1"] = 1

(***************************************************************************)
(* Properties of the trade stream                                          *)
(***************************************************************************)

\* C40: between the handlers of /api/trades/stream the emitter is running
\* exactly when at least one client is in the set, it has one polling timer
\* armed when it is running and none when it is not, and its handle is set
\* exactly when it is running.
C40_RunningWhileClients ==
    /\ isRunning <=> clients > 0
    /\ intervals <= 1
    /\ intervals = 1 <=> isRunning
    /\ pollingInterval = "set" <=> isRunning

\* a second client connected while the emitter was running: one timer
C40_Witness ==
    /\ clients = 2
    /\ isRunning
    /\ intervals = 1
    /\ lastCheckedTimestamp > 0

(***************************************************************************)
(* Properties of GET /api/trades                                           *)
(***************************************************************************)

\* the limit the request asks for: 50 when the parameter is absent or not a
\* number, at most 100
RequestedLimit(query) ==
    IF query.kind = "int"
    THEN (IF query.value > 100 THEN 100 ELSE query.value)
    ELSE 50

\* the bot-executed documents of all collections, by id
BotDocs == {id \in DocIds : /\ id[2] <= Len(store[id[1]])
                            /\ store[id[1]][id[2]].bot = TRUE}

\* C32: the answer of GET /api/trades that getRecentTrades computed holds
\* bot-executed trades only, each once, in descending timestamp order, at
\* most limit of them, limit being the parameter, 50 when it is absent, 100
\* when it is larger; and they are the limit most recent bot-executed trades
\* of all tracked addresses together.
C32_RecentTrades ==
    (recent.pc = "done" /\ ~recent.failed) =>
        LET r == recent.response
            n == RequestedLimit(recent.query)
            ids == {r[k].id : k \in 1..Len(r)}
        IN  /\ Len(r) <= n
            /\ ids \subseteq BotDocs
            /\ Cardinality(ids) = Len(r)
            /\ \A k \in 1..Len(r) :
                  r[k].timestamp = store[r[k].id[1]][r[k].id[2]].timestamp
            /\ \A k \in 1..(Len(r) - 1) : r[k].timestamp >= r[k + 1].timestamp
            /\ Len(r) = (IF Cardinality(BotDocs) < n THEN Cardinality(BotDocs)
                         ELSE n)
            /\ \A id \in BotDocs \ ids : \A k \in 1..Len(r) :
                  store[id[1]][id[2]].timestamp <= r[k].timestamp



====
